---- MODULE Spec2Model ----
(***************************************************************************)
(* Verification model of holly-studio's long-operation protocol.           *)
(*                                                                         *)
(* Server side (specification Spec): the Operation Registry                *)
(* (src/lib/operation-store.ts), the Submission Gateway                    *)
(* (api/webhook route, POST + handleWebhookRequest + GET), the Completion  *)
(* Callback Endpoint (api/operation-complete route) and the Status Query   *)
(* Endpoint (api/operation-status/[operationId] route, GET + DELETE).      *)
(*                                                                         *)
(* The host runtime is single-threaded: every handler runs to its next     *)
(* await without interleaving, so each action below is one such segment.   *)
(***************************************************************************)
EXTENDS Integers, Sequences, FiniteSets, TLC

(***************************************************************************)
(* Program constants and model bounds                                      *)
(***************************************************************************)

\* OperationStore.CLEANUP_INTERVAL = 60 * 60 * 1000 (also the literal used by
\* the two GET handlers for their one-hour expiry test)
CLEANUP_INTERVAL == 3600000

\* handleWebhookRequest: const timeout = 900000
GATEWAY_TIMEOUT == 900000

\* number of submissions the Gateway accepts in a run of the model
MaxOps == 1

\* Date.now() when the server process starts
Epoch == 1

\* the instants at which the model looks at the clock: the start, the instant
\* at which a record written at the start is exactly one retention window old
\* (startTime = oneHourAgo), and the millisecond after (startTime < oneHourAgo)
ClockInstants == {Epoch, Epoch + CLEANUP_INTERVAL, Epoch + CLEANUP_INTERVAL + 1}

(***************************************************************************)
(* JavaScript / JSON values.  Every value is a record with a tag, so that  *)
(* any two values can be compared.  A string is a sequence of words        *)
(* (String.prototype.includes is then membership of a word); an object is  *)
(* a set of <<key, value>> pairs with distinct keys.                       *)
(***************************************************************************)

Undefined == [tag |-> "undefined"]
Null == [tag |-> "null"]
Str(s) == [tag |-> "string", s |-> s]
Num(n) == [tag |-> "number", n |-> n]
Obj(kv) == [tag |-> "object", kv |-> kv]
Bool(b) == [tag |-> "boolean", b |-> b]
Arr(items) == [tag |-> "array", items |-> items]

\* JavaScript truthiness (what `!x` and `x || y` test)
Truthy(v) ==
    CASE v.tag = "undefined" -> FALSE
      [] v.tag = "null" -> FALSE
      [] v.tag = "string" -> v.s # <<>>
      [] v.tag = "number" -> v.n # 0
      [] v.tag = "boolean" -> v.b
      [] OTHER -> TRUE

\* a || b
OrElse(a, b) == IF Truthy(a) THEN a ELSE b

\* property access o.k throws a TypeError exactly on undefined and null
Nullish(v) == v.tag \in {"undefined", "null"}

HasKey(o, k) == o.tag = "object" /\ \E p \in o.kv : p[1] = k

\* o.k for a non-nullish o: the value under k, undefined when there is none
Get(o, k) == IF HasKey(o, k) THEN (CHOOSE p \in o.kv : p[1] = k)[2] ELSE Undefined

\* o?.k
OptGet(o, k) == IF Nullish(o) THEN Undefined ELSE Get(o, k)

\* { ...o, k: v }: spreading undefined, null or an empty object adds nothing
SpreadWith(o, k, v) ==
    Obj({p \in (IF o.tag = "object" THEN o.kv ELSE {}) : p[1] # k} \cup {<<k, v>>})

\* arr[0]
First(a) == IF a.tag = "array" /\ Len(a.items) > 0 THEN a.items[1] ELSE Undefined

\* message.includes(w)
Includes(msg, w) == \E i \in 1..Len(msg) : msg[i] = w


(***************************************************************************)
(* Operation ids.  The Gateway builds `op_${Date.now()}_${random}`; the    *)
(* model numbers the ids it issues.  Requests may also carry an id of      *)
(* another form, or none.                                                  *)
(***************************************************************************)

OpId(k) == [prefix |-> "op_", n |-> k]
MalformedId == [prefix |-> "id_", n |-> 1]
NoId == [prefix |-> "", n |-> 0]

GatewayIds == {OpId(k) : k \in 1..MaxOps}

(***************************************************************************)
(* Operation Registry: src/lib/operation-store.ts                          *)
(* A store is a function from the ids it holds to OperationState records   *)
(* {status, startTime, result?, error?}; an absent result or error is      *)
(* Undefined.                                                              *)
(***************************************************************************)

OperationState(status, startTime, result, error) ==
    [status |-> status, startTime |-> startTime, result |-> result, error |-> error]

\* a set that leaves a record alone once it is terminal
StoreSet_NoOverwriteTerminal(s, id, state) ==
    IF id \in DOMAIN s /\ s[id].status # "pending"
    THEN s
    ELSE [k \in DOMAIN s \cup {id} |-> IF k = id THEN state ELSE s[k]]

\* OperationStore.set: Map.set replaces whatever the id held
StoreSet(s, id, state) ==
    [k \in DOMAIN s \cup {id} |-> IF k = id THEN state ELSE s[k]]

\* OperationStore.get(id) !== undefined
StoreHas(s, id) == id \in DOMAIN s

\* OperationStore.delete
StoreDelete(s, id) == [k \in DOMAIN s \ {id} |-> s[k]]

\* OperationStore.keys
StoreKeys(s) == DOMAIN s

\* the startTime of a write that ignores the record the id holds
StartTimeOr_AlwaysNow(s, id, t) == t

\* operationStore.get(id)?.startTime || Date.now()
StartTimeOr(s, id, t) ==
    IF StoreHas(s, id) /\ s[id].startTime # 0 THEN s[id].startTime ELSE t

\* the test of one entry by age alone
CleanupEvicts_AnyStatus(state, t) == state.startTime < t - CLEANUP_INTERVAL

\* OperationStore.cleanup: the test of one entry

CleanupEvicts(state, t) ==
    state.startTime < t - CLEANUP_INTERVAL /\ state.status # "pending"

\* OperationStore.cleanup
Cleanup(s, t) ==
    [k \in {j \in DOMAIN s : ~CleanupEvicts(s[j], t)} |-> s[k]]

(***************************************************************************)
(* Submission Gateway: api/webhook route                                   *)
(***************************************************************************)

Project == Str(<<"p1">>)

\* { spent: 0, total: 15 }
DefaultBudget == Obj({<<"spent", Num(0)>>, <<"total", Num(15)>>})

EmptyObject == Obj({})

\* what the fetch of the workflow ends with: a response, or a thrown value
Response(status, statusText, json, body) ==
    [kind |-> "response", status |-> status, statusText |-> statusText,
     json |-> json, body |-> body, isError |-> FALSE, name |-> "", message |-> <<>>]

Thrown(isError, name, message) ==
    [kind |-> "throw", status |-> 0, statusText |-> <<>>, json |-> FALSE,
     body |-> Undefined, isError |-> isError, name |-> name, message |-> message]

NoThrow == Thrown(FALSE, "none", <<>>)

\* a body that response.json() cannot parse
InvalidJson == [tag |-> "invalid"]

\* response.ok
ResponseOk(out) == out.status >= 200 /\ out.status <= 299

\* the test with 524 alone
IsGatewayStatus_Only524(status) == status = 524

\* response.status === 524 || response.status === 502 || response.status === 503

IsGatewayStatus(status) == status \in {524, 502, 503}

\* the Error thrown for a non-OK response: errorDetails is the body text
\* (substring(0, 200)), '' when the body cannot be read as text
FailedError(out) ==
    LET details == IF out.body.tag = "string" THEN out.body.s ELSE <<>>
    IN Thrown(TRUE, "Error",
              <<"Webhook request failed:", ToString(out.status)>> \o out.statusText
                \o (IF details # <<>> THEN <<"-">> \o details ELSE <<>>))

\* the transform of the workflow's reply into {response_to_user, updatedStateJson}
TextResult(raw, project) ==
    Obj({<<"response_to_user", raw>>,
         <<"updatedStateJson",
           Obj({<<"project_id", project>>, <<"history", Arr(<<>>)>>,
                <<"assets", EmptyObject>>, <<"phase", Str(<<"text_interaction">>)>>,
                <<"checklist", EmptyObject>>})>>})

StateDataResult(stateData, project) ==
    Obj({<<"response_to_user",
           OrElse(OptGet(Get(stateData, "current_step_info"), "pending_question"),
                  Str(<<"Operation completed successfully">>))>>,
         <<"updatedStateJson",
           Obj({<<"project_id", project>>,
                <<"phase", OrElse(Get(stateData, "phase"), Str(<<"initial">>))>>,
                <<"assets", SpreadWith(Get(stateData, "assets"), "phase",
                                       Get(stateData, "phase"))>>,
                <<"checklist", OrElse(Get(stateData, "checklist"), EmptyObject)>>,
                <<"budget", OrElse(Get(stateData, "budget"), DefaultBudget)>>,
                <<"history", Arr(<<>>)>>})>>})

UnknownResult_DropsRaw(raw, project) ==
    Obj({<<"response_to_user",
           Str(<<"Operation completed, but response format was unexpected.">>)>>,
         <<"updatedStateJson",
           Obj({<<"project_id", project>>, <<"history", Arr(<<>>)>>,
                <<"assets", EmptyObject>>,
                <<"phase", Str(<<"unknown">>)>>, <<"checklist", EmptyObject>>})>>})

UnknownResult(raw, project) ==
    Obj({<<"response_to_user",
           Str(<<"Operation completed, but response format was unexpected.">>)>>,
         <<"updatedStateJson",
           Obj({<<"project_id", project>>, <<"history", Arr(<<>>)>>,
                <<"assets", Obj({<<"raw_response", raw>>})>>,
                <<"phase", Str(<<"unknown">>)>>, <<"checklist", EmptyObject>>})>>})

\* Array.isArray(rawResponse) && rawResponse[0]?.state_data
HasStateData(raw) ==
    raw.tag = "array" /\ Truthy(OptGet(First(raw), "state_data"))

\* the third test reads a property of rawResponse: a TypeError on null
TransformThrows(raw) ==
    raw.tag # "string" /\ ~HasStateData(raw) /\ Nullish(raw)

Transform(raw, project) ==
    IF raw.tag = "string" THEN TextResult(raw, project)
    ELSE IF HasStateData(raw) THEN StateDataResult(Get(First(raw), "state_data"), project)
    ELSE IF Truthy(Get(raw, "response_to_user")) \/ Truthy(Get(raw, "updatedStateJson"))
         THEN raw
    ELSE UnknownResult(raw, project)

\* the value the try block of handleWebhookRequest throws, NoThrow when it
\* runs to its end or returns early
GatewayThrown(out) ==
    IF out.kind = "throw" THEN out
    ELSE IF ~ResponseOk(out)
         THEN (IF IsGatewayStatus(out.status) THEN NoThrow ELSE FailedError(out))
    ELSE IF out.json /\ out.body = InvalidJson
         THEN Thrown(TRUE, "SyntaxError", <<"Unexpected token < in JSON">>)
    ELSE IF TransformThrows(out.body)
         THEN Thrown(TRUE, "TypeError", <<"Cannot read properties of null">>)
    ELSE NoThrow

\* catch: AbortError, or a message with '524' or 'timeout', is no failure

CatchKeepsPending(e) ==
    e.isError /\ (\/ e.name = "AbortError"
                  \/ Includes(e.message, "524")
                  \/ Includes(e.message, "timeout"))

\* error instanceof Error ? error.message : 'Unknown error'
CatchMessage(e) == IF e.isError THEN Str(e.message) ELSE Str(<<"Unknown error">>)

\* GatewayWrite with the failure branch keeping status 'completed'
GatewayWrite_ErrorAsCompleted(out, project, startTime) ==
    LET e == GatewayThrown(out)
    IN IF e # NoThrow
       THEN (IF CatchKeepsPending(e)
             THEN OperationState("pending", startTime, Undefined, Undefined)
             ELSE OperationState("completed", startTime, Undefined, CatchMessage(e)))
       ELSE IF ~ResponseOk(out)
            THEN OperationState("pending", startTime, Undefined, Undefined)
       ELSE OperationState("completed", startTime, Transform(out.body, project), Undefined)

\* the record handleWebhookRequest writes when the workflow call has ended
\* with `out`, for a record whose startTime is to be `startTime`
GatewayWrite(out, project, startTime) ==
    LET e == GatewayThrown(out)
    IN IF e # NoThrow
       THEN (IF CatchKeepsPending(e)
             THEN OperationState("pending", startTime, Undefined, Undefined)
             ELSE OperationState("error", startTime, Undefined, CatchMessage(e)))
       ELSE IF ~ResponseOk(out)
            THEN OperationState("pending", startTime, Undefined, Undefined)
       ELSE OperationState("completed", startTime, Transform(out.body, project), Undefined)

(***************************************************************************)
(* Completion Callback Endpoint: api/operation-complete route              *)
(***************************************************************************)

\* a parsed request body {operationId, projectId, result, error, status};
\* parsed = FALSE is a body request.json() rejects
CallbackBody(parsed, projectId, result, error) ==
    [parsed |-> parsed, projectId |-> projectId, result |-> result, error |-> error]

\* !operationId || !result
CallbackMissingFields(id, body) == id = NoId \/ ~Truthy(body.result)

\* result.response_to_user.substring(...) and result.updatedStateJson.assets
\* throw a TypeError when the user message is no string or the state is absent
CallbackThrows(body) ==
    \/ Get(body.result, "response_to_user").tag # "string"
    \/ Nullish(Get(body.result, "updatedStateJson"))

\* a stored result built from the defaults alone
CallbackResult_KeepsNothing(body) ==
    Obj({<<"response_to_user", Str(<<"Operation completed successfully">>)>>,
         <<"updatedStateJson",
           Obj({<<"project_id", body.projectId>>, <<"history", Arr(<<>>)>>,
                <<"assets", EmptyObject>>, <<"phase", Str(<<"completed">>)>>,
                <<"checklist", EmptyObject>>, <<"budget", DefaultBudget>>})>>})

\* the result the endpoint stores
CallbackResult(body) ==
    LET state == Get(body.result, "updatedStateJson")
    IN Obj({<<"response_to_user", Get(body.result, "response_to_user")>>,
            <<"updatedStateJson",
              Obj({<<"project_id", body.projectId>>,
                   <<"history", Arr(<<>>)>>,
                   <<"assets", OrElse(Get(state, "assets"), EmptyObject)>>,
                   <<"phase", OrElse(Get(state, "phase"), Str(<<"completed">>))>>,
                   <<"checklist", OrElse(Get(state, "checklist"), EmptyObject)>>,
                   <<"budget", OrElse(Get(state, "budget"), DefaultBudget)>>})>>})

\* the record the endpoint writes
CallbackWrite(body, startTime) ==
    OperationState("completed", startTime, CallbackResult(body), Undefined)

\* the HTTP status the endpoint answers with
CallbackCode(id, body) ==
    IF ~body.parsed THEN 500
    ELSE IF CallbackMissingFields(id, body) THEN 400
    ELSE IF CallbackThrows(body) THEN 500
    ELSE 200

(***************************************************************************)
(* Status Query Endpoint: api/operation-status/[operationId] route, and    *)
(* the GET handler of the webhook route                                    *)
(***************************************************************************)

\* the expiry test with `operation.status === 'completed'` for its second half
StatusExpired_CompletedOnly(operation, t) ==
    operation.startTime < t - CLEANUP_INTERVAL /\ operation.status = "completed"

\* operation.startTime < oneHourAgo && operation.status !== 'pending'

StatusExpired(operation, t) ==
    operation.startTime < t - CLEANUP_INTERVAL /\ operation.status # "pending"

StatusBody(status, result, error) ==
    [status |-> status, result |-> result, error |-> error]

NoBody == StatusBody("", Undefined, Undefined)

\* GET /api/operation-status/{id}: the HTTP status
StatusCode(s, id, t) ==
    IF id = NoId THEN 400
    ELSE IF id.prefix # "op_" THEN 400
    ELSE IF ~StoreHas(s, id) THEN 404
    ELSE IF StatusExpired(s[id], t) THEN 410
    ELSE 200

\* GET /api/operation-status/{id}: the body of a 200
StatusResponse(s, id) ==
    StatusBody(s[id].status, OrElse(s[id].result, Null), OrElse(s[id].error, Null))

\* GET /api/webhook?operationId=: the HTTP status (no test of the id's form)
WebhookStatusCode(s, id, t) ==
    IF id = NoId THEN 400
    ELSE IF ~StoreHas(s, id) THEN 404
    ELSE IF StatusExpired(s[id], t) THEN 410
    ELSE 200

\* GET /api/webhook?operationId=: the body of a 200
WebhookStatusResponse(s, id) ==
    StatusBody(s[id].status, s[id].result, s[id].error)

\* DELETE /api/operation-status/{id}: the HTTP status
DeleteCode(s, id) ==
    IF id = NoId THEN 400
    ELSE IF ~StoreHas(s, id) THEN 404
    ELSE 200

(***************************************************************************)
(* Inputs: what the workflow answers, and what callbacks carry             *)
(***************************************************************************)

RawText == Str(<<"hello">>)

RawStateData ==
    Arr(<<Obj({<<"state_data",
                 Obj({<<"current_step_info",
                        Obj({<<"pending_question", Str(<<"Which style?">>)>>})>>,
                      <<"phase", Str(<<"script">>)>>,
                      <<"assets", Obj({<<"core_idea", Str(<<"idea">>)>>})>>,
                      <<"checklist", Obj({<<"idea_approved", Bool(TRUE)>>})>>,
                      <<"budget", Obj({<<"spent", Num(3)>>, <<"total", Num(15)>>})>>})>>})>>)

RawCanonical ==
    Obj({<<"response_to_user", Str(<<"done">>)>>,
         <<"updatedStateJson",
           Obj({<<"project_id", Project>>, <<"history", Arr(<<>>)>>,
                <<"assets", Obj({<<"script", Str(<<"s1">>)>>})>>,
                <<"phase", Str(<<"script">>)>>, <<"checklist", EmptyObject>>})>>})

RawUnknown == Obj({<<"foo", Str(<<"bar">>)>>})

\* the replies of the workflow that the Gateway receives with response.ok
OkOutcomes ==
    {Response(200, <<"OK">>, FALSE, RawText),
     Response(200, <<"OK">>, TRUE, Null)}

\* 502, 503, 524 from the intermediary
GatewayStatusOutcomes ==
    {Response(524, <<"">>, FALSE, Str(<<>>)),
     Response(502, <<"Bad Gateway">>, FALSE, Str(<<>>)),
     Response(503, <<"Service Unavailable">>, FALSE, Str(<<>>))}

\* other non-OK replies: a plain 400, and a 500 whose body mentions a timeout
FailedOutcomes ==
    {Response(400, <<"Bad Request">>, FALSE, Str(<<>>)),
     Response(500, <<"Internal Server Error">>, FALSE, Str(<<"upstream", "timeout">>))}

AbortOutcome == Thrown(TRUE, "AbortError", <<"This operation was aborted">>)

\* fetch rejects: a network failure, and a timeout reported by the network layer
ThrowOutcomes ==
    {Thrown(TRUE, "TypeError", <<"fetch failed">>),
     Thrown(TRUE, "Error", <<"network", "timeout">>)}

WorkflowOutcomes ==
    OkOutcomes \cup GatewayStatusOutcomes \cup FailedOutcomes \cup ThrowOutcomes

\* the documented callback: user message, assets, phase, checklist and budget
ResultFull ==
    Obj({<<"response_to_user", Str(<<"Your video is ready">>)>>,
         <<"updatedStateJson",
           Obj({<<"project_id", Project>>,
                <<"assets", Obj({<<"final_video", Str(<<"v.mp4">>)>>})>>,
                <<"phase", Str(<<"video_generation_complete">>)>>,
                <<"checklist", Obj({<<"assembly_complete", Bool(TRUE)>>})>>,
                <<"budget", Obj({<<"spent", Num(8)>>, <<"total", Num(15)>>})>>})>>})

\* a callback whose state carries none of the four fields
ResultBare ==
    Obj({<<"response_to_user", Str(<<"ok">>)>>, <<"updatedStateJson", EmptyObject>>})

ResultNoMessage == Obj({<<"updatedStateJson", EmptyObject>>})

ResultNoState == Obj({<<"response_to_user", Str(<<"ok">>)>>})

\* {operationId, projectId, error, status: "error"}: the documented failure report
ErrorReport == CallbackBody(TRUE, Project, Undefined, Str(<<"boom">>))

CallbackBodies ==
    {CallbackBody(TRUE, Project, ResultFull, Undefined),
     CallbackBody(TRUE, Project, ResultBare, Undefined),
     CallbackBody(TRUE, Project, ResultNoMessage, Undefined),
     CallbackBody(TRUE, Project, ResultNoState, Undefined),
     ErrorReport,
     CallbackBody(FALSE, Undefined, Undefined, Undefined)}

(***************************************************************************)
(* Client side: the project's row in the database (table project_states),  *)
(* the Operation Baseline and the content comparison of the database       *)
(* fallback (src/lib/webhook.ts).                                          *)
(***************************************************************************)

\* pollForOperationCompletion.poll: the poll intervals and the elapsed times
\* at which the phases end
FAST_POLL_INTERVAL == 500
MEDIUM_POLL_INTERVAL == 2000
FAST_PHASE_END == 30000
MEDIUM_PHASE_END == 120000

\* after 30 s a 404 starts the fallback, 2 s later
NOT_FOUND_WINDOW == 30000
NOT_FOUND_DELAY == 2000

\* gateway timeouts lead to a database probe before 60 s, from the third on
PROBE_WINDOW == 60000
PROBE_AFTER == 3

\* a pending answer after 60 s starts the fallback, 1 s later
PENDING_WINDOW == 60000
PENDING_DELAY == 1000

\* catch block: retry windows, the cap of the network backoff, and the elapsed
\* time after which an error starts the fallback
DECODE_WINDOW == 120000
NETWORK_WINDOW == 300000
BACKOFF_CAP == 10000
ERROR_WINDOW == 60000

\* startDatabasePollingFallback: maxMonitoringTime and pollInterval
maxMonitoringTime == 20 * 60 * 1000
DB_POLL_INTERVAL == 15000

\* arr[arr.length - 1]
Last(a) == IF a.tag = "array" /\ Len(a.items) > 0 THEN a.items[Len(a.items)] ELSE Undefined

\* arr.length
Length(a) == IF a.tag = "array" THEN Len(a.items) ELSE 0

\* JSON.stringify(o): keys whose value is undefined are left out, so objects
\* that differ in such keys only have the same text
Stringify(o) ==
    [tag |-> "json",
     of |-> IF o.tag = "object" THEN Obj({p \in o.kv : p[2] # Undefined}) ELSE o]

\* a message of a stored history
Msg(role, content, timestamp) ==
    Obj({<<"role", Str(<<role>>)>>, <<"content", content>>, <<"timestamp", timestamp>>})

\* a message in the workflow's own format: text under `message`
RawMsg(role, message, timestamp) ==
    Obj({<<"role", Str(<<role>>)>>, <<"message", message>>, <<"created_at", timestamp>>})

\* the row { state_data, updated_at } of a project
Row(history, assets, checklist) ==
    Obj({<<"state_data",
           Obj({<<"history", history>>, <<"assets", assets>>,
                <<"checklist", checklist>>})>>})

\* msg?.content || msg?.message || ''
MessageText(msg) ==
    OrElse(OrElse(OptGet(msg, "content"), OptGet(msg, "message")), Str(<<>>))

\* msg?.timestamp || msg?.created_at || ''
MessageTime(msg) ==
    OrElse(OrElse(OptGet(msg, "timestamp"), OptGet(msg, "created_at")), Str(<<>>))

Baseline(content, timestamp, assetHash, historyLength) ==
    [latestMessageContent |-> content, latestMessageTimestamp |-> timestamp,
     assetHash |-> assetHash, historyLength |-> historyLength]

EmptyBaseline == Baseline(Str(<<>>), Str(<<>>), Stringify(EmptyObject), 0)

\* pollForOperationCompletion: the baseline taken from the row read before
\* monitoring starts (row is Null when there is none)
CaptureBaseline(row) ==
    IF Truthy(row) /\ Truthy(OptGet(Get(row, "state_data"), "history"))
    THEN LET state == Get(row, "state_data")
             history == Get(state, "history")
         IN Baseline(MessageText(Last(history)), MessageTime(Last(history)),
                     Stringify(OrElse(Get(state, "assets"), EmptyObject)),
                     Length(history))
    ELSE EmptyBaseline

\* pollDatabase: state_data?.history || []
CurrentHistory(row) == OrElse(OptGet(Get(row, "state_data"), "history"), Arr(<<>>))

\* pollDatabase: contentChanged || timestampChanged || assetsChanged
ContentDiffers_ByLength(row, baseline) ==
    Length(CurrentHistory(row)) # baseline.historyLength

ContentDiffers(row, baseline) ==
    \/ MessageText(Last(CurrentHistory(row))) # baseline.latestMessageContent
    \/ MessageTime(Last(CurrentHistory(row))) # baseline.latestMessageTimestamp
    \/ Stringify(OrElse(OptGet(Get(row, "state_data"), "assets"), EmptyObject))
          # baseline.assetHash

\* msg.role === 'assistant' && (msg.content || msg.message)
IsAssistantText(msg) ==
    /\ Get(msg, "role") = Str(<<"assistant">>)
    /\ Truthy(OrElse(Get(msg, "content"), Get(msg, "message")))

\* currentHistory.slice().reverse().find(...): the last such message, or
\* undefined
LatestAssistantMessage_First(history) ==
    IF \E i \in 1..Length(history) : IsAssistantText(history.items[i])
    THEN history.items[CHOOSE i \in 1..Length(history) :
                          /\ IsAssistantText(history.items[i])
                          /\ \A j \in 1..(i - 1) : ~IsAssistantText(history.items[j])]
    ELSE Undefined

LatestAssistantMessage(history) ==
    IF \E i \in 1..Length(history) : IsAssistantText(history.items[i])
    THEN history.items[CHOOSE i \in 1..Length(history) :
                          /\ IsAssistantText(history.items[i])
                          /\ \A j \in (i + 1)..Length(history) :
                                ~IsAssistantText(history.items[j])]
    ELSE Undefined

\* pollDatabase: the value it resolves with on a completion signal
DatabaseResult(row, project) ==
    LET state == Get(row, "state_data")
        msg == LatestAssistantMessage(CurrentHistory(row))
    IN Obj({<<"response_to_user", OrElse(Get(msg, "content"), Get(msg, "message"))>>,
            <<"updatedStateJson",
              Obj({<<"project_id", project>>,
                   <<"history", CurrentHistory(row)>>,
                   <<"assets", OrElse(OptGet(state, "assets"), EmptyObject)>>,
                   <<"phase", OrElse(OptGet(state, "phase"), Str(<<"completed">>))>>,
                   <<"checklist", OrElse(OptGet(state, "checklist"), EmptyObject)>>,
                   <<"budget", OrElse(OptGet(state, "budget"), DefaultBudget)>>})>>})

\* pollDatabase: the pseudo-result of the monitoring ceiling
TimedOutResult(project, elapsed) ==
    Obj({<<"response_to_user",
           Str(<<"running", "for", ToString(elapsed \div 60000), "minutes",
                 "check", "the", "sidebar">>)>>,
         <<"updatedStateJson",
           Obj({<<"project_id", project>>, <<"history", Arr(<<>>)>>,
                <<"assets", EmptyObject>>, <<"phase", Str(<<"processing">>)>>,
                <<"checklist", EmptyObject>>, <<"budget", DefaultBudget>>})>>})

(***************************************************************************)
(* Client side: the Application State Store's project as far as the        *)
(* Monitor reads it (unnamed/part_010, refreshProjectStateFromSupabase),   *)
(* and the Monitor (src/lib/webhook.ts, pollForOperationCompletion and     *)
(* startDatabasePollingFallback).                                          *)
(***************************************************************************)

\* the fields of currentProject that the Monitor's probe reads
ProjectState(assets, phase, checklist, budget) ==
    Obj({<<"project_id", Project>>, <<"assets", assets>>, <<"phase", phase>>,
         <<"checklist", checklist>>, <<"budget", budget>>})

\* a Date of the browser: valid with its time value, or the invalid Date
\* (time value NaN).  The clock of the model starts after 1970, so a Date of
\* the year 1970 has a negative time value.
DateAt(ms) == [tag |-> "date", valid |-> TRUE, ms |-> ms]

InvalidDate == [tag |-> "date", valid |-> FALSE, ms |-> 0]

Date1970 == DateAt(0 - 1)

\* date.toISOString()
Iso(ms) == Str(<<"iso", ToString(ms)>>)

Iso1970 == Str(<<"1970-01-01T00:00:00.000Z">>)

\* the elapsed times (from Epoch) that the timestamps of the model denote
StampElapsed == {0, 29999, 30000, 60000}

StampInstants == {Epoch + e : e \in StampElapsed}

\* Date.parse as far as the model's strings go: the ISO strings of the
\* instants, the first instant of 1970, and strings that are no date
ParseDate(s) ==
    IF s = Iso1970 THEN Date1970
    ELSE IF \E ms \in StampInstants : s = Iso(ms)
    THEN DateAt(CHOOSE ms \in StampInstants : s = Iso(ms))
    ELSE InvalidDate

\* new Date(v) for a Date, a string, null or undefined
NewDate(v) ==
    CASE v.tag = "date" -> v
      [] v.tag = "string" -> ParseDate(v)
      [] v.tag = "null" -> Date1970
      [] OTHER -> InvalidDate

\* a message of the local history (types Message); mediaUrls and error are
\* optional
Message(id, content, role, timestamp) ==
    Obj({<<"id", id>>, <<"content", content>>, <<"role", role>>,
         <<"timestamp", timestamp>>})

\* the object literal refreshProjectStateFromSupabase builds for a message
FullMessage(id, content, role, timestamp, mediaUrls, error) ==
    Obj({<<"id", id>>, <<"content", content>>, <<"role", role>>,
         <<"timestamp", timestamp>>, <<"mediaUrls", mediaUrls>>, <<"error", error>>})

\* `${msg.role}` inside a template string
RoleWord(role) ==
    IF role.tag = "string" /\ Len(role.s) = 1 THEN role.s[1] ELSE role.tag

\* `supabase_${projectId}_${index}_${msg.role}_${Date.now()}`
SupabaseId(index, role, t) ==
    Str(<<"supabase_", "p1", ToString(index), RoleWord(role), ToString(t)>>)

\* refreshProjectStateFromSupabase: the timestamp given to the message at
\* index (counted from 0) of the remote history
NormalizedTimestamp(raw, index, t) ==
    IF Truthy(raw)
    THEN IF raw.tag = "string"
         THEN IF ParseDate(raw).valid /\ ParseDate(raw).ms >= 0
              THEN ParseDate(raw)
              ELSE DateAt(t + index * 1000)
         ELSE IF raw.tag = "date" THEN raw
         ELSE DateAt(t + index * 1000)
    ELSE DateAt(t + index * 1000)

\* refreshProjectStateFromSupabase: one message of the remote history in the
\* frontend's format
Normalize(msg, index, t) ==
    FullMessage(OrElse(Get(msg, "id"), SupabaseId(index, Get(msg, "role"), t)),
                OrElse(OrElse(Get(msg, "message"), Get(msg, "content")), Str(<<>>)),
                OrElse(Get(msg, "role"), Str(<<"assistant">>)),
                NormalizedTimestamp(Get(msg, "timestamp"), index, t),
                OrElse(Get(msg, "mediaUrls"), Arr(<<>>)),
                OrElse(Get(msg, "error"), Undefined))

\* rawSupabaseHistory.map(...)
NormalizedHistory(raw, t) ==
    [i \in 1..Len(raw) |-> Normalize(raw[i], i - 1, t)]

\* new Date(msg.timestamp).getTime() is a number (not NaN)
HasTime(msg) == NewDate(Get(msg, "timestamp")).valid

\* new Date(msg.timestamp).getTime()
GetTime(msg) == NewDate(Get(msg, "timestamp")).ms

\* existingHistory.filter(msg => msg.role === 'user' && time > now - 30000)
IsRecentUserMessage(msg, t) ==
    /\ Get(msg, "role") = Str(<<"user">>)
    /\ HasTime(msg)
    /\ GetTime(msg) > t - 30000

RecentUserMessages_None(existing, t) == <<>>

RecentUserMessages(existing, t) ==
    SelectSeq(existing, LAMBDA msg : IsRecentUserMessage(msg, t))

\* the comparator of mergedHistory.sort: a NaN result counts as 0
CompareTime(a, b) ==
    IF HasTime(a) /\ HasTime(b) THEN GetTime(a) - GetTime(b) ELSE 0

\* Array.prototype.sort is stable: x goes behind every element that does not
\* compare greater than it
RECURSIVE InsertByTime(_, _)
InsertByTime(sorted, x) ==
    IF sorted = <<>> THEN <<x>>
    ELSE IF CompareTime(sorted[Len(sorted)], x) <= 0 THEN Append(sorted, x)
    ELSE Append(InsertByTime(SubSeq(sorted, 1, Len(sorted) - 1), x), sorted[Len(sorted)])

RECURSIVE SortByTime(_)
SortByTime(messages) ==
    IF messages = <<>> THEN <<>>
    ELSE InsertByTime(SortByTime(SubSeq(messages, 1, Len(messages) - 1)),
                      messages[Len(messages)])

\* the loop over recentUserMessages: each is pushed, as a new object, unless
\* a message of that id is in mergedHistory already
RECURSIVE PushRecent(_, _)
PushRecent(merged, recent) ==
    IF recent = <<>> THEN merged
    ELSE LET msg == Head(recent)
             exists == \E i \in 1..Len(merged) : Get(merged[i], "id") = Get(msg, "id")
             copy == FullMessage(Get(msg, "id"), Get(msg, "content"), Get(msg, "role"),
                                 Get(msg, "timestamp"),
                                 OrElse(Get(msg, "mediaUrls"), Arr(<<>>)),
                                 OrElse(Get(msg, "error"), Undefined))
         IN PushRecent(IF exists THEN merged ELSE Append(merged, copy), Tail(recent))

\* useSupabaseHistory
UseSupabaseHistory_AtLeast(normalized, existing) == Len(normalized) >= Len(existing)

UseSupabaseHistory(normalized, existing) == Len(normalized) > Len(existing)

FinalHistory_Unsorted(existing, remote, t) ==
    LET raw == IF remote.tag = "array" THEN remote.items ELSE <<>>
        normalized == NormalizedHistory(raw, t)
        recent == RecentUserMessages(existing, t)
    IN IF UseSupabaseHistory(normalized, existing)
       THEN PushRecent(normalized, recent)
       ELSE existing

\* refreshProjectStateFromSupabase: finalHistory, from the local history (a
\* sequence of messages), the history of the remote state and Date.now()
FinalHistory(existing, remote, t) ==
    LET raw == IF remote.tag = "array" THEN remote.items ELSE <<>>
        normalized == NormalizedHistory(raw, t)
        recent == RecentUserMessages(existing, t)
    IN IF Len(recent) > 0 /\ ~UseSupabaseHistory(normalized, existing) THEN existing
       ELSE IF UseSupabaseHistory(normalized, existing)
       THEN SortByTime(PushRecent(normalized, recent))
       ELSE existing

\* currentProject?.history || []
HistoryOf(project) ==
    LET h == OptGet(project, "history")
    IN IF h.tag = "array" THEN h.items ELSE <<>>

\* { ...currentProject, project_id, history, assets, phase, checklist, budget }
WithFields(project, history, assets, phase, checklist, budget) ==
    SpreadWith(SpreadWith(SpreadWith(SpreadWith(SpreadWith(SpreadWith(
        project, "project_id", Project), "history", history), "assets", assets),
        "phase", phase), "checklist", checklist), "budget", budget)

\* fetchProjectState, after the retries of withRetry, throws an Error
ReadThrows(message) == [tag |-> "thrown", message |-> message]

\* the row cannot be read for lack of permission (406), and another failure
PermissionError ==
    ReadThrows(<<"Supabase", "permission error (406)", "Row Level Security blocking access">>)

OtherReadError == ReadThrows(<<"fetch", "failed">>)

\* refreshProjectStateFromSupabase: the store's error after a refresh whose
\* read gave state, with a missing row counted as an error
RefreshError_MissingRowIsError(state, error) ==
    IF state.tag = "thrown" \/ state.tag = "null"
    THEN Str(<<"Database permission issue.">>)
    ELSE error

\* refreshProjectStateFromSupabase: the store's error after a refresh whose
\* read gave state
RefreshError(state, error) ==
    IF state.tag = "thrown" /\ Includes(state.message, "permission error (406)")
    THEN Str(<<"Database permission issue.">>)
    ELSE error

\* refreshProjectStateFromSupabase: the project after a refresh that read
\* state (state_data of the row; Null when fetchProjectState returned null;
\* a thrown value when it threw)
RefreshedProject(current, state, t) ==
    IF state.tag = "thrown" \/ ~Truthy(state) THEN current
    ELSE WithFields(
           current,
           Arr(FinalHistory(HistoryOf(current), Get(state, "history"), t)),
           OrElse(OrElse(Get(state, "assets"), OptGet(current, "assets")), EmptyObject),
           OrElse(OrElse(Get(state, "phase"), OptGet(current, "phase")),
                  Str(<<"initial">>)),
           OrElse(OrElse(Get(state, "checklist"), OptGet(current, "checklist")),
                  EmptyObject),
           OrElse(OrElse(Get(state, "budget"), OptGet(current, "budget")),
                  DefaultBudget))

\* checklist && !Array.isArray(checklist) && checklist[k] === true
ChecklistHas(project, k) ==
    LET checklist == Get(project, "checklist")
    IN /\ Truthy(checklist)
       /\ checklist.tag # "array"
       /\ Get(checklist, k) = Bool(TRUE)

\* isOperationCompleteFromState; the ids of the model do not contain 'video'
IsOperationCompleteFromState(project) ==
    IF ~Truthy(project) \/ ~Truthy(Get(project, "assets")) THEN FALSE
    ELSE \/ /\ Get(project, "phase") = Str(<<"video_generation">>)
            /\ \/ Length(Get(Get(project, "assets"), "video_clips")) > 0
               \/ Truthy(Get(Get(project, "assets"), "final_video"))
               \/ ChecklistHas(project, "video_clips_generated")
         \/ ChecklistHas(project, "assembly_complete")

\* poll: the value resolved with when the probe finds the operation complete
ProbeResult(project) ==
    Obj({<<"response_to_user", Str(<<"Operation", "completed", "Check", "the", "sidebar">>)>>,
         <<"updatedStateJson",
           Obj({<<"project_id", Project>>,
                <<"history", OrElse(OptGet(project, "history"), Arr(<<>>))>>,
                <<"assets", OrElse(OptGet(project, "assets"), EmptyObject)>>,
                <<"phase", OrElse(OptGet(project, "phase"), Str(<<"completed">>))>>,
                <<"checklist", OrElse(OptGet(project, "checklist"), EmptyObject)>>,
                <<"budget", OrElse(OptGet(project, "budget"), DefaultBudget)>>})>>})

\* poll: the value resolved with when a completed answer carries no result
FallbackResponse ==
    Obj({<<"response_to_user", Str(<<"Your", "operation", "completed", "successfully">>)>>,
         <<"updatedStateJson",
           Obj({<<"project_id", Project>>, <<"history", Arr(<<>>)>>,
                <<"assets", EmptyObject>>, <<"phase", Str(<<"completed">>)>>,
                <<"checklist", EmptyObject>>})>>})

\* new Error(data.error || 'Operation failed')
OperationError(error) == OrElse(error, Str(<<"Operation", "failed">>))

\* what the Monitor is doing: pc is its position ("poll": a status poll is
\* scheduled; "startFallback": the timer that starts the fallback is running;
\* "pollDatabase": a database poll is scheduled; "settled": the promise is
\* resolved or rejected; "none": no Monitor), phase the state of the run, due
\* the time the pending timer fires, delay what the last status poll passed to
\* setTimeout, settled the value or error the promise was settled with, probes
\* the number of database probes the status polls have made, timers the
\* number of calls of poll, pollDatabase or startDatabasePollingFallback that
\* are running or waiting in a timer. notFoundSince is history kept for the
\* properties, not a variable of the code: the time of the first of the
\* unbroken series of not-found answers the status polls have received up to
\* now, negative when the last poll received something else or has not run;
\* networkErrorsOnly, history as well, is TRUE while every status poll of the
\* run has thrown an error the catch block takes for a network error
MonitorState(pc, phase, started, pollInterval, gatewayTimeouts, due, delay, dbStartTime, baseline, settled) ==
    [pc |-> pc, phase |-> phase, startTime |-> started, pollInterval |-> pollInterval,
     gatewayTimeouts |-> gatewayTimeouts, due |-> due, delay |-> delay,
     dbStartTime |-> dbStartTime, baseline |-> baseline, settled |-> settled,
     probes |-> 0, timers |-> 0, notFoundSince |-> 0 - 1,
     networkErrorsOnly |-> TRUE]

NoMonitor ==
    MonitorState("none", "Idle", 0, FAST_POLL_INTERVAL, 0, 0, 0, 0, EmptyBaseline, Undefined)

\* new Promise(...): startTime = Date.now(), pollInterval = 500,
\* gatewayTimeouts = 0, and poll() called at once
StartMonitor(baseline, t) ==
    [MonitorState("poll", "Submitted", t, FAST_POLL_INTERVAL, 0, t, 0, 0, baseline, Undefined)
        EXCEPT !.timers = 1]

\* the timer fires: its callback runs and is no longer waiting
Fired(m) == [m EXCEPT !.timers = @ - 1]

Schedule_Twice(m, d, t) ==
    [m EXCEPT !.pc = "poll", !.due = t + d, !.delay = d, !.timers = @ + 2]

\* poll returns without arming its next timer
Schedule_Lost(m, d, t) ==
    [m EXCEPT !.pc = "lost", !.delay = d]

\* setTimeout(poll, d)
Schedule(m, d, t) ==
    [m EXCEPT !.pc = "poll", !.due = t + d, !.delay = d, !.timers = @ + 1]

\* setTimeout(() => startDatabasePollingFallback(...), d)
StartFallbackLater(m, d, t) ==
    [m EXCEPT !.pc = "startFallback", !.due = t + d, !.timers = @ + 1,
              !.notFoundSince = 0 - 1,
              !.networkErrorsOnly = FALSE]

\* startDatabasePollingFallback: startTime = Date.now(); pollDatabase()
EnterFallback(m, t) ==
    [m EXCEPT !.pc = "pollDatabase", !.phase = "DatabaseFallback",
              !.dbStartTime = t, !.due = t, !.timers = @ + 1,
              !.notFoundSince = 0 - 1,
              !.networkErrorsOnly = FALSE]

\* resolve(v) / reject(new Error(e))
Resolve(m, phase, v) ==
    [m EXCEPT !.pc = "settled", !.phase = phase, !.settled = v,
              !.notFoundSince = 0 - 1, !.networkErrorsOnly = FALSE]

\* poll: the adaptive interval; none from 120 s on
PhaseOf(elapsed) ==
    IF elapsed < FAST_PHASE_END THEN "FastPoll"
    ELSE IF elapsed < MEDIUM_PHASE_END THEN "MediumPoll"
    ELSE "DatabaseFallback"

IntervalOf_AlwaysFast(elapsed) == FAST_POLL_INTERVAL

IntervalOf(elapsed) ==
    IF elapsed < FAST_PHASE_END THEN FAST_POLL_INTERVAL ELSE MEDIUM_POLL_INTERVAL

Min(a, b) == IF a < b THEN a ELSE b

\* NextResponse.json(v) read back by JSON.parse: keys whose value is undefined
\* are left out, undefined array entries become null
RECURSIVE Json(_)
Json(v) ==
    CASE v.tag = "object" ->
           Obj({<<p[1], Json(p[2])>> : p \in {q \in v.kv : q[2] # Undefined}})
      [] v.tag = "array" ->
           Arr([i \in 1..Len(v.items) |->
                  IF v.items[i] = Undefined THEN Null ELSE Json(v.items[i])])
      [] OTHER -> v

\* what fetch(`/api/operation-status/${operationId}`) gives the Monitor: a
\* response (text is "json" when the body parses, "empty" or "garbled"
\* otherwise; data is the parsed body), or a thrown value
StatusAnswer(code, text, data) ==
    [kind |-> "response", status |-> code, text |-> text, data |-> data,
     isError |-> FALSE, message |-> <<>>]

FetchThrows(isError, message) ==
    [kind |-> "throw", status |-> 0, text |-> "none", data |-> NoBody,
     isError |-> isError, message |-> message]

\* the answer of the Status Query Endpoint as the Monitor receives it
EndpointAnswer(s, id, t) ==
    IF StatusCode(s, id, t) = 200
    THEN StatusAnswer(200, "json",
                      StatusBody(StatusResponse(s, id).status,
                                 Json(StatusResponse(s, id).result),
                                 Json(StatusResponse(s, id).error)))
    ELSE StatusAnswer(StatusCode(s, id, t), "json", NoBody)

CatchPoll_Rejects(m, t, isError, message) ==
    IF t - m.startTime > ERROR_WINDOW
    THEN Resolve(m, "Failed", Str(message))
    ELSE Schedule(m, m.pollInterval * 2, t)

\* poll, catch block: m is the Monitor with this poll's pollInterval
CatchPoll(m, t, isError, message) ==
    LET elapsed == t - m.startTime
    IN IF isError /\ Includes(message, "JSON") /\ elapsed < DECODE_WINDOW
       THEN Schedule(m, m.pollInterval * 3, t)
       ELSE IF /\ isError
               /\ Includes(message, "fetch") \/ Includes(message, "timeout")
               /\ elapsed < NETWORK_WINDOW
       THEN Schedule(m, Min(m.pollInterval * 4, BACKOFF_CAP), t)
       ELSE IF elapsed > ERROR_WINDOW
       THEN EnterFallback(m, t)
       ELSE Schedule(m, m.pollInterval * 2, t)

\* poll, gateway timeout (524, 502, 503): project is currentProject after the
\* refresh of the probe
AfterGatewayTimeout_NoProbe(m, t, project) ==
    Schedule([m EXCEPT !.gatewayTimeouts = @ + 1], m.pollInterval * 2, t)

AfterGatewayTimeout(m, t, project) ==
    LET counted == [m EXCEPT !.gatewayTimeouts = @ + 1]
        probed == [counted EXCEPT !.probes = @ + 1]
    IN IF t - m.startTime < PROBE_WINDOW /\ counted.gatewayTimeouts >= PROBE_AFTER
       THEN IF IsOperationCompleteFromState(project)
            THEN Resolve(probed, "Resolved", ProbeResult(project))
            ELSE Schedule(probed, m.pollInterval * 2, t)
       ELSE Schedule(counted, m.pollInterval * 2, t)

\* poll makes the probe (refreshProjectStateFromSupabase) for this answer
Probes(m, t, answer) ==
    /\ t - m.startTime < MEDIUM_PHASE_END
    /\ answer.kind = "response"
    /\ answer.status \in {524, 502, 503}
    /\ t - m.startTime < PROBE_WINDOW
    /\ m.gatewayTimeouts + 1 >= PROBE_AFTER

\* poll, a parsed answer
AfterData_CompletedNeedsResult(m, t, data) ==
    IF data.status = "completed" /\ Truthy(data.result)
    THEN Resolve(m, "Resolved", data.result)
    ELSE IF data.status \in {"completed", "error"}
    THEN Resolve(m, "Failed", OperationError(data.error))
    ELSE IF data.status = "pending" /\ t - m.startTime > PENDING_WINDOW
    THEN StartFallbackLater(m, PENDING_DELAY, t)
    ELSE Schedule(m, m.pollInterval, t)

AfterData_ErrorRetried(m, t, data) ==
    IF data.status = "completed"
    THEN Resolve(m, "Resolved", IF Truthy(data.result) THEN data.result ELSE FallbackResponse)
    ELSE IF data.status = "pending" /\ t - m.startTime > PENDING_WINDOW
    THEN StartFallbackLater(m, PENDING_DELAY, t)
    ELSE Schedule(m, m.pollInterval, t)

AfterData(m, t, data) ==
    IF data.status = "completed"
    THEN Resolve(m, "Resolved", IF Truthy(data.result) THEN data.result ELSE FallbackResponse)
    ELSE IF data.status = "error"
    THEN Resolve(m, "Failed", OperationError(data.error))
    ELSE IF data.status = "pending" /\ t - m.startTime > PENDING_WINDOW
    THEN StartFallbackLater(m, PENDING_DELAY, t)
    ELSE Schedule(m, m.pollInterval, t)

\* the history of not-found answers after the poll at t has received answer
NotFoundSince(m, t, answer) ==
    IF answer.kind = "response" /\ answer.status = 404
    THEN IF m.notFoundSince < 0 THEN t ELSE m.notFoundSince
    ELSE 0 - 1

\* the poll threw an error whose message holds 'fetch' or 'timeout'
IsNetworkError(answer) ==
    /\ answer.kind = "throw"
    /\ answer.isError
    /\ Includes(answer.message, "fetch") \/ Includes(answer.message, "timeout")

\* poll: the Monitor after the poll that starts at t and receives answer
AfterPoll(monitor0, t, answer, project) ==
    LET elapsed == t - monitor0.startTime
        m == [Fired(monitor0) EXCEPT !.pollInterval = IntervalOf(elapsed),
                                     !.phase = PhaseOf(elapsed),
                                     !.notFoundSince = NotFoundSince(monitor0, t, answer),
                                     !.networkErrorsOnly =
                                         /\ monitor0.networkErrorsOnly
                                         /\ IsNetworkError(answer)]
    IN IF elapsed >= MEDIUM_PHASE_END THEN EnterFallback(Fired(monitor0), t)
       ELSE IF answer.kind = "throw" THEN CatchPoll(m, t, answer.isError, answer.message)
       ELSE IF answer.status = 404
       THEN IF elapsed > NOT_FOUND_WINDOW
            THEN StartFallbackLater(m, NOT_FOUND_DELAY, t)
            ELSE Schedule(m, m.pollInterval, t)
       ELSE IF answer.status \in {524, 502, 503} THEN AfterGatewayTimeout(m, t, project)
       ELSE IF answer.status < 200 \/ answer.status > 299
       THEN CatchPoll(m, t, TRUE,
                      <<"Operation", "status", "check", "failed", ToString(answer.status)>>)
       ELSE IF answer.text = "empty" THEN Schedule(m, m.pollInterval, t)
       ELSE IF answer.text = "garbled" THEN Schedule(m, m.pollInterval * 2, t)
       ELSE AfterData(m, t, answer.data)

\* pollDatabase: read is the row the read returned (Null when it returned no
\* data), or Undefined when the read threw
AfterDatabasePoll_NoCeiling(m, t, read) ==
    LET again(d) == [m EXCEPT !.pc = "pollDatabase", !.due = t + d]
    IN IF read = Undefined THEN again(DB_POLL_INTERVAL * 2)
       ELSE IF ~Truthy(read) THEN again(DB_POLL_INTERVAL)
       ELSE IF /\ ContentDiffers(read, m.baseline)
               /\ Truthy(LatestAssistantMessage(CurrentHistory(read)))
       THEN Resolve(Fired(m), "Resolved", DatabaseResult(read, Project))
       ELSE again(DB_POLL_INTERVAL)

AfterDatabasePoll(m, t, read) ==
    LET elapsed == t - m.dbStartTime
        again(d) == [m EXCEPT !.pc = "pollDatabase", !.due = t + d]
    IN IF elapsed > maxMonitoringTime
       THEN Resolve(Fired(m), "TimedOut", TimedOutResult(Project, elapsed))
       ELSE IF read = Undefined THEN again(DB_POLL_INTERVAL * 2)
       ELSE IF ~Truthy(read) THEN again(DB_POLL_INTERVAL)
       ELSE IF /\ ContentDiffers(read, m.baseline)
               /\ Truthy(LatestAssistantMessage(CurrentHistory(read)))
       THEN Resolve(Fired(m), "Resolved", DatabaseResult(read, Project))
       ELSE again(DB_POLL_INTERVAL)

\* handleSubmit: the user's message, with id `msg_${Date.now()}`
UserMessage(text, t) == Message(Str(<<"msg_", ToString(t)>>), text, Str(<<"user">>), DateAt(t))

\* handleSubmit: the assistant's message, with id `msg_${Date.now()}_assistant`
AssistantMessage(text, t) ==
    Message(Str(<<"msg_", ToString(t), "_assistant">>), text, Str(<<"assistant">>), DateAt(t))

\* ChatComposer: isLoading; submittedAt, Date.now() of the pending
\* handleSubmit; and a record of the last step that touched the history: its
\* kind, the history before it, and the remote state it read (Null: none);
\* error is the error field of the store; active is the number of calls of
\* sendWebhookMessage that have not returned
Composer(isLoading, submittedAt, did, before, read) ==
    [isLoading |-> isLoading, submittedAt |-> submittedAt, did |-> did,
     before |-> before, read |-> read, error |-> Null,
     active |-> IF isLoading THEN 1 ELSE 0]

IdleComposer == Composer(FALSE, 0, "none", <<>>, Null)

\* { ...a, ...b }
Spread(a, b) ==
    IF b.tag # "object" THEN a
    ELSE Obj({p \in (IF a.tag = "object" THEN a.kv ELSE {}) : ~HasKey(b, p[1])} \cup b.kv)

\* addMessage: without a current project the store stays as it is
AddMessage(project, message) ==
    IF ~Truthy(project) THEN project
    ELSE SpreadWith(project, "history", Arr(Append(HistoryOf(project), message)))

\* handleSubmit: an assistant's message of this text, younger than a minute,
\* is in the history already
IsDuplicate(project, text, t) ==
    \E i \in 1..Len(HistoryOf(project)) :
        LET msg == HistoryOf(project)[i]
        IN /\ Get(msg, "role") = Str(<<"assistant">>)
           /\ Get(msg, "content") = text
           /\ HasTime(msg)
           /\ t - GetTime(msg) < 60000

\* handleSubmit: the assistant's response is added unless it is a duplicate
WithResponseMessage(project, response, t) ==
    IF Truthy(Get(response, "response_to_user"))
       /\ ~IsDuplicate(project, Get(response, "response_to_user"), t)
    THEN AddMessage(project, AssistantMessage(Get(response, "response_to_user"), t))
    ELSE project

\* handleSubmit: { ...freshCurrentProject, ...response.updatedStateJson,
\* history: currentHistory, project_id }
WithResponseState(project, response) ==
    IF Truthy(Get(response, "updatedStateJson"))
    THEN SpreadWith(SpreadWith(Spread(project, Get(response, "updatedStateJson")),
                               "history", Arr(HistoryOf(project))),
                    "project_id", OrElse(OptGet(project, "project_id"), Project))
    ELSE project

\* handleSubmit after sendWebhookMessage has returned response: the message,
\* the state, and the refresh from the database, which read the state `read`
AfterResponse(project, response, read, t) ==
    RefreshedProject(WithResponseState(WithResponseMessage(project, response, t), response),
                     read, t)

(***************************************************************************)
(* State                                                                   *)
(***************************************************************************)

VARIABLES
    store,       \* OperationStore.store
    now,         \* Date.now()
    nextSweep,   \* when the setInterval of the OperationStore is due next
    configured,  \* WEBHOOK_URL is set (not the placeholder)
    nextOp,      \* number of the next operation id the Gateway issues
    calls,       \* per issued id: the background handleWebhookRequest
    ev,          \* the last handler that ran and what it answered
    db,          \* the project's row in table project_states (Null: none)
    currentProject,  \* useChatStore.getState().currentProject
    monitor,     \* the run of pollForOperationCompletion in the browser
    composer     \* ChatComposer: isLoading, when the pending message was
                 \* submitted, and what handleSubmit last did to the history

vars == <<store, now, nextSweep, configured, nextOp, calls, ev, db, currentProject, monitor, composer>>

\* the state of the browser and of the database
clientVars == <<db, currentProject, monitor, composer>>

\* the state of the server process
serverVars == <<store, now, nextSweep, configured, nextOp, calls, ev>>

\* op: the handler; id: the operation id of the request; code: the HTTP status
\* answered (for "gateway" the status of the workflow's reply, 0 when the fetch
\* threw; for "sweep" the number of records cleaned); prev: the status the
\* Registry held for id when the handler started
Event(op, id, code, prev) == [op |-> op, id |-> id, code |-> code, prev |-> prev]

PrevStatus(s, id) == IF id \in DOMAIN s THEN s[id].status ELSE "absent"

Idle == [pc |-> "idle", started |-> 0]

\* the ids the Gateway has issued so far
Issued == {OpId(k) : k \in 1..(nextOp - 1)}

\* the ids a caller of the endpoints may send
RequestIds == Issued \cup {MalformedId, NoId}

\* the store of a fresh OperationStore: new Map()
EmptyStore == [k \in {} |-> NoBody]

Init ==
    /\ store = EmptyStore
    /\ now = Epoch
    /\ nextSweep = Epoch + CLEANUP_INTERVAL
    /\ configured \in BOOLEAN
    /\ nextOp = 1
    /\ calls = [id \in GatewayIds |-> Idle]
    /\ ev = Event("init", NoId, 0, "absent")
    /\ db = Null
    /\ currentProject = Null
    /\ monitor = NoMonitor
    /\ composer = IdleComposer

(***************************************************************************)
(* Actions                                                                 *)
(***************************************************************************)

\* POST /api/webhook, with the pending record left to the background call
Submit_NoPendingRecord(bodyOk) ==
    /\ nextOp <= MaxOps
    /\ IF ~configured \/ ~bodyOk
       THEN /\ ev' = Event("submit", NoId, 500, "absent")
            /\ UNCHANGED <<store, nextOp, calls>>
       ELSE LET id == OpId(nextOp)
            IN /\ store' = store
               /\ calls' = [calls EXCEPT ![id] = [pc |-> "calling", started |-> now]]
               /\ nextOp' = nextOp + 1
               /\ ev' = Event("submit", id, 202, PrevStatus(store, id))
    /\ UNCHANGED <<now, nextSweep, configured>>

\* POST /api/webhook.  bodyOk = FALSE is a request whose body is no JSON.
Submit(bodyOk) ==
    /\ nextOp <= MaxOps
    /\ IF ~configured \/ ~bodyOk
       THEN /\ ev' = Event("submit", NoId, 500, "absent")
            /\ UNCHANGED <<store, nextOp, calls>>
       ELSE LET id == OpId(nextOp)
            IN /\ store' = StoreSet(store, id,
                                    OperationState("pending", now, Undefined, Undefined))
               /\ calls' = [calls EXCEPT ![id] = [pc |-> "calling", started |-> now]]
               /\ nextOp' = nextOp + 1
               /\ ev' = Event("submit", id, 202, PrevStatus(store, id))
    /\ UNCHANGED <<now, nextSweep, configured>>

\* the continuation of handleWebhookRequest after its fetch: the abort timer
\* ends a call that has run for GATEWAY_TIMEOUT, any other end comes before
GatewayEnds(id, out) ==
    /\ calls[id].pc = "calling"
    /\ IF out = AbortOutcome
       THEN now - calls[id].started >= GATEWAY_TIMEOUT
       ELSE now - calls[id].started < GATEWAY_TIMEOUT
    /\ store' = StoreSet(store, id, GatewayWrite(out, Project, StartTimeOr(store, id, now)))
    /\ calls' = [calls EXCEPT ![id] = [pc |-> "done", started |-> 0]]
    /\ ev' = Event("gateway", id, out.status, PrevStatus(store, id))
    /\ UNCHANGED <<now, nextSweep, configured, nextOp>>

\* POST /api/operation-complete
Callback(id, body) ==
    /\ store' = IF CallbackCode(id, body) = 200
                THEN StoreSet(store, id, CallbackWrite(body, StartTimeOr(store, id, now)))
                ELSE store
    /\ ev' = Event("callback", id, CallbackCode(id, body), PrevStatus(store, id))
    /\ UNCHANGED <<now, nextSweep, configured, nextOp, calls>>

\* GET /api/operation-status/{id} that removes every record it finds terminal
StatusQuery_RemovesTerminal(id) ==
    /\ store' = IF StatusCode(store, id, now) = 410
                   \/ (StatusCode(store, id, now) = 200 /\ store[id].status # "pending")
                THEN StoreDelete(store, id) ELSE store
    /\ ev' = Event("status", id, StatusCode(store, id, now), PrevStatus(store, id))
    /\ UNCHANGED <<now, nextSweep, configured, nextOp, calls>>

\* GET /api/operation-status/{id}
StatusQuery(id) ==
    /\ store' = IF StatusCode(store, id, now) = 410 THEN StoreDelete(store, id) ELSE store
    /\ ev' = Event("status", id, StatusCode(store, id, now), PrevStatus(store, id))
    /\ UNCHANGED <<now, nextSweep, configured, nextOp, calls>>

\* GET /api/webhook?operationId=
WebhookStatus(id) ==
    /\ store' = IF WebhookStatusCode(store, id, now) = 410
                THEN StoreDelete(store, id) ELSE store
    /\ ev' = Event("webhook-status", id, WebhookStatusCode(store, id, now),
                   PrevStatus(store, id))
    /\ UNCHANGED <<now, nextSweep, configured, nextOp, calls>>

\* DELETE /api/operation-status/{id}
DeleteOperation(id) ==
    /\ store' = IF DeleteCode(store, id) = 200 THEN StoreDelete(store, id) ELSE store
    /\ ev' = Event("delete", id, DeleteCode(store, id), PrevStatus(store, id))
    /\ UNCHANGED <<now, nextSweep, configured, nextOp, calls>>

\* the setInterval callback of the OperationStore
Sweep ==
    /\ now >= nextSweep
    /\ store' = Cleanup(store, now)
    /\ nextSweep' = nextSweep + CLEANUP_INTERVAL
    /\ ev' = Event("sweep", NoId,
                   Cardinality(DOMAIN store) - Cardinality(DOMAIN Cleanup(store, now)),
                   "absent")
    /\ UNCHANGED <<now, configured, nextOp, calls>>

\* time passes
Tick(t) ==
    /\ t > now
    /\ now' = t
    /\ UNCHANGED <<store, nextSweep, configured, nextOp, calls, ev>>

\* the server process alone: the browser and the database stay as they are
Next ==
    \/ \E bodyOk \in BOOLEAN : Submit(bodyOk) /\ UNCHANGED clientVars
    \/ \E id \in GatewayIds : \E out \in WorkflowOutcomes \cup {AbortOutcome} :
          GatewayEnds(id, out) /\ UNCHANGED clientVars
    \/ \E id \in Issued \cup {NoId} : \E body \in CallbackBodies :
          Callback(id, body) /\ UNCHANGED clientVars
    \/ \E id \in RequestIds : StatusQuery(id) /\ UNCHANGED clientVars
    \/ \E id \in RequestIds : WebhookStatus(id) /\ UNCHANGED clientVars
    \/ \E id \in RequestIds : DeleteOperation(id) /\ UNCHANGED clientVars
    \/ Sweep /\ UNCHANGED clientVars
    \/ \E t \in ClockInstants : Tick(t) /\ UNCHANGED clientVars

Spec == Init /\ [][Next]_vars

(***************************************************************************)
(* The Monitor of one operation (specification MonitorSpec): the browser   *)
(* has submitted a message, the Gateway has answered 202 with op 1, and    *)
(* pollForOperationCompletion runs against the Status Query Endpoint of    *)
(* the server above and against the database.  The clock is looked at at   *)
(* the instants of MonitorInstants; a timer fires at the first such        *)
(* instant that is not before its due time.  The workflow's callback comes *)
(* for a record the Registry holds.                                        *)
(***************************************************************************)

\* the operation the Monitor watches
Monitored == OpId(1)

\* elapsed times (from the start of monitoring) at which the clock is read
MonitorElapsed ==
    {2 * FAST_POLL_INTERVAL, 4 * FAST_POLL_INTERVAL, FAST_PHASE_END, PENDING_WINDOW + 1, MEDIUM_PHASE_END,
     MEDIUM_PHASE_END + maxMonitoringTime, MEDIUM_PHASE_END + maxMonitoringTime + 1}

MonitorInstants == {Epoch + e : e \in MonitorElapsed}

\* rows of the project: the one present at submission, and the ones the
\* workflow saves while it works
TimeA == Str(<<"t1">>)
TimeB == Str(<<"t2">>)
TimeC == Str(<<"t3">>)
TextA == Str(<<"A">>)
TextB == Str(<<"B">>)

Row0 == Row(Arr(<<Msg("assistant", TextA, TimeA)>>), EmptyObject, EmptyObject)

\* the latest message replaced: same length, same timestamp, other content
RowEdited == Row(Arr(<<Msg("assistant", TextB, TimeA)>>), EmptyObject, EmptyObject)

\* the finished operation: two messages appended (an answer in the workflow's
\* format and an empty one), the assets and the checklist of the assembly
RowFinished ==
    Row(Arr(<<Msg("assistant", TextA, TimeA), RawMsg("assistant", TextB, TimeB),
              Msg("assistant", Str(<<>>), TimeC)>>),
        Obj({<<"final_video", Str(<<"v.mp4">>)>>}),
        Obj({<<"assembly_complete", Bool(TRUE)>>}))

\* the history replaced by the user's message alone
RowUserOnly == Row(Arr(<<Msg("user", Str(<<"hi">>), TimeB)>>), EmptyObject, EmptyObject)

InitialRows == {Null, Row0}

SavedRows == {RowEdited, RowUserOnly, RowFinished}

\* the project the browser shows at submission: the user's message is added
InitialProject ==
    SpreadWith(ProjectState(EmptyObject, Str(<<"initial">>), EmptyObject, DefaultBudget),
               "history", Arr(<<UserMessage(Str(<<"hi">>), Epoch)>>))

\* answers of a status poll that do not come from the endpoint's handler: the
\* intermediary's gateway errors, a server error, a body that is empty or
\* does not parse, a completed answer without result, and a fetch that rejects
NetworkAnswers ==
    {StatusAnswer(524, "json", NoBody), StatusAnswer(502, "json", NoBody),
     StatusAnswer(503, "json", NoBody), StatusAnswer(500, "json", NoBody),
     StatusAnswer(200, "empty", NoBody), StatusAnswer(200, "garbled", NoBody),
     StatusAnswer(200, "json", StatusBody("completed", Null, Null)),
     FetchThrows(TRUE, <<"fetch", "failed">>),
     FetchThrows(TRUE, <<"Load", "failed">>)}

\* what the Gateway's background call ends with while the Monitor runs
MonitorWorkflowOutcomes == {out \in WorkflowOutcomes : out.status = 400}

\* the callback the workflow sends while the Monitor runs
MonitorCallbackBodies == {CallbackBody(TRUE, Project, ResultFull, Undefined)}

MonitorInit ==
    /\ store = StoreSet(EmptyStore, Monitored,
                        OperationState("pending", Epoch, Undefined, Undefined))
    /\ now = Epoch
    /\ nextSweep = Epoch + CLEANUP_INTERVAL
    /\ configured = TRUE
    /\ nextOp = 2
    /\ calls = [id \in GatewayIds |->
                  IF id = Monitored THEN [pc |-> "calling", started |-> Epoch] ELSE Idle]
    /\ ev = Event("submit", Monitored, 202, "absent")
    /\ db \in InitialRows
    /\ currentProject = InitialProject
    /\ monitor = StartMonitor(CaptureBaseline(db), Epoch)
    /\ composer = Composer(TRUE, Epoch, "submit", HistoryOf(InitialProject), Null)

\* poll with the request reaching the endpoint's handler
PollEndpoint ==
    /\ monitor.pc = "poll"
    /\ now >= monitor.due
    /\ now - monitor.startTime < MEDIUM_PHASE_END
    /\ StatusQuery(Monitored)
    /\ monitor' = AfterPoll(monitor, now, EndpointAnswer(store, Monitored, now),
                            currentProject)
    /\ UNCHANGED <<db, currentProject, composer>>

\* poll with another answer; read is what the probe's fetchProjectState
\* returns (the state of the row, or Null)
PollNetwork(answer, read) ==
    /\ monitor.pc = "poll"
    /\ now >= monitor.due
    /\ now - monitor.startTime < MEDIUM_PHASE_END
    /\ currentProject' = IF Probes(monitor, now, answer)
                         THEN RefreshedProject(currentProject, read, now)
                         ELSE currentProject
    /\ monitor' = AfterPoll(monitor, now, answer, currentProject')
    /\ UNCHANGED <<serverVars, db, composer>>

\* poll from 120 s on: no request, the fallback starts
PollSwitches ==
    /\ monitor.pc = "poll"
    /\ now >= monitor.due
    /\ now - monitor.startTime >= MEDIUM_PHASE_END
    /\ monitor' = AfterPoll(monitor, now, StatusAnswer(0, "none", NoBody), currentProject)
    /\ UNCHANGED <<serverVars, db, currentProject, composer>>

\* the timer set by poll that starts the fallback
StartFallback ==
    /\ monitor.pc = "startFallback"
    /\ now >= monitor.due
    /\ monitor' = EnterFallback(Fired(monitor), now)
    /\ UNCHANGED <<serverVars, db, currentProject, composer>>

\* pollDatabase; read is the row, Null, or Undefined for a read that throws
PollDatabase(read) ==
    /\ monitor.pc = "pollDatabase"
    /\ now >= monitor.due
    /\ monitor' = AfterDatabasePoll(monitor, now, read)
    /\ UNCHANGED <<serverVars, db, currentProject, composer>>

\* the workflow saves the project's state
WorkflowSaves(row) ==
    /\ monitor.pc # "settled"
    /\ db' = row
    /\ UNCHANGED <<serverVars, currentProject, monitor, composer>>

\* the run is followed until the Monitor's promise is settled
Running == monitor.pc # "settled"

\* the pending timer is not due yet, and t is the next instant of the clock
TimerWaits(t) ==
    /\ monitor.due > now
    /\ t > now
    /\ \A u \in MonitorInstants : u > now => t <= u

\* the last time a timer of the model is followed to
ClockEnd == Epoch + MEDIUM_PHASE_END + maxMonitoringTime + 4 * DB_POLL_INTERVAL

\* after the last instant of MonitorInstants the clock is read when the
\* pending timer fires
TimerFiresLate ==
    /\ monitor.due > now
    /\ \A u \in MonitorInstants : u <= now
    /\ monitor.due <= ClockEnd
    /\ Tick(monitor.due)

MonitorNext ==
    \/ PollEndpoint
    \/ \E answer \in NetworkAnswers :
          \E read \in {OptGet(db, "state_data"), Null} : PollNetwork(answer, read)
    \/ PollSwitches
    \/ StartFallback
    \/ \E read \in {db, Null, Undefined} : PollDatabase(read)
    \/ \E row \in SavedRows : WorkflowSaves(row)
    \/ \E out \in MonitorWorkflowOutcomes :
          Running /\ GatewayEnds(Monitored, out) /\ UNCHANGED clientVars
    \/ \E body \in MonitorCallbackBodies :
          Running /\ Monitored \in DOMAIN store /\ Callback(Monitored, body)
             /\ UNCHANGED clientVars
    \/ Running /\ DeleteOperation(Monitored) /\ UNCHANGED clientVars
    \/ \E t \in MonitorInstants :
          Running /\ TimerWaits(t) /\ Tick(t) /\ UNCHANGED clientVars
    \/ Running /\ TimerFiresLate /\ UNCHANGED clientVars

MonitorSpec == MonitorInit /\ [][MonitorNext]_vars

\* the steps of the Monitor itself: a poll or a start of the fallback that is
\* due
MonitorStep ==
    \/ PollEndpoint
    \/ \E answer \in NetworkAnswers :
          \E read \in {OptGet(db, "state_data"), Null} : PollNetwork(answer, read)
    \/ PollSwitches
    \/ StartFallback
    \/ \E read \in {db, Null, Undefined} : PollDatabase(read)

\* the clock reaches the time the pending timer is set for
ClockStep ==
    \/ \E t \in MonitorInstants :
          Running /\ TimerWaits(t) /\ Tick(t) /\ UNCHANGED clientVars
    \/ Running /\ TimerFiresLate /\ UNCHANGED clientVars

\* timers fire, and a poll that is due runs and gets its answer
MonitorFairSpec == MonitorSpec /\ WF_vars(MonitorStep) /\ WF_vars(ClockStep)

(***************************************************************************)
(* Properties of the Registry and its writers                              *)
(***************************************************************************)

\* a field of a record that is set (neither undefined nor null)
IsSet(v) == ~Nullish(v)

Terminal(state) == state.status # "pending"

\* the steps of the two writers and of the readers, as action predicates
GatewayStep(id) == \E out \in WorkflowOutcomes \cup {AbortOutcome} : GatewayEnds(id, out)

CallbackStep(id) == \E body \in CallbackBodies : Callback(id, body)

\* C1: in every reachable state every record of the Registry has a status in
\* {pending, completed, error}; it carries a result only when completed and an
\* error only when error; a terminal record carries exactly one of the two.
C1_RecordsWellFormed ==
    \A id \in DOMAIN store :
        /\ store[id].status \in {"pending", "completed", "error"}
        /\ IsSet(store[id].result) => store[id].status = "completed"
        /\ IsSet(store[id].error) => store[id].status = "error"
        /\ Terminal(store[id]) => (IsSet(store[id].result) # IsSet(store[id].error))

\* C1 witness: the Gateway's call has failed and left an error record
C1_Witness ==
    /\ ev.op = "gateway"
    /\ ev.id \in DOMAIN store
    /\ store[ev.id].status = "error"
    /\ IsSet(store[ev.id].error)

\* C2: an accepted submission writes a pending record under a fresh id of the
\* form op_* before the 202, and a status query for that id made right after
\* the 202 answers 200 with status pending.
C2_AcceptedIsPending ==
    [][nextOp' # nextOp =>
         LET id == OpId(nextOp)
         IN /\ id.prefix = "op_"
            /\ id \notin DOMAIN store
            /\ ev' = Event("submit", id, 202, "absent")
            /\ id \in DOMAIN store'
            /\ store'[id] = OperationState("pending", now, Undefined, Undefined)
            /\ StatusCode(store', id, now') = 200
            /\ StatusResponse(store', id).status = "pending"]_vars

\* C2 witness: a submission has just been answered 202 and its record is pending
C2_Witness ==
    /\ ev.op = "submit"
    /\ ev.code = 202
    /\ StatusCode(store, ev.id, now) = 200
    /\ StatusResponse(store, ev.id).status = "pending"

\* a gateway-level end of the workflow call: 502, 503 or 524 from the
\* intermediary, the call's own abort, or a timeout the network layer reports
GatewayLevel(out) ==
    \/ out.kind = "response" /\ out.status \in {502, 503, 524}
    \/ out.kind = "throw" /\ out.name = "AbortError"
    \/ out.kind = "throw" /\ Includes(out.message, "timeout")

\* the workflow call did not deliver a usable reply
CallFailed(out) ==
    \/ out.kind = "throw"
    \/ out.status < 200
    \/ out.status > 299
    \/ Nullish(out.body)

\* C3: when the background workflow call ends with a gateway-level failure the
\* record's status is pending afterwards; the Gateway sets a record to error
\* only when the call failed for another reason.
C3_GatewayFailureKeepsPending ==
    [][ev'.op = "gateway" =>
         \A id \in GatewayIds : \A out \in WorkflowOutcomes \cup {AbortOutcome} :
            (ev'.id = id /\ ev'.code = out.status /\ GatewayEnds(id, out)) =>
               /\ GatewayLevel(out) => store'[id].status = "pending"
               /\ store'[id].status = "error" => (~GatewayLevel(out) /\ CallFailed(out))]_vars

\* C3 witness: the call has ended with a 503 and the record is pending
C3_Witness ==
    /\ ev.op = "gateway"
    /\ ev.code = 503
    /\ store[ev.id].status = "pending"
    /\ calls[ev.id].pc = "done"

\* a callback result of the documented form: a string user message and a state
WellFormedResult(body) ==
    /\ body.parsed
    /\ Get(body.result, "response_to_user").tag = "string"
    /\ Get(body.result, "updatedStateJson").tag = "object"

StateFields == {"assets", "phase", "checklist", "budget"}

\* result r holds the user message of the callback and each of assets, phase,
\* checklist and budget that the callback carries
CarriesResultOf(r, body) ==
    /\ Get(r, "response_to_user") = Get(body.result, "response_to_user")
    /\ \A f \in StateFields :
          Truthy(Get(Get(body.result, "updatedStateJson"), f)) =>
             Get(Get(r, "updatedStateJson"), f) = Get(Get(body.result, "updatedStateJson"), f)

\* C4: a completion callback with an operationId and a result, for an id the
\* Registry holds as pending, is answered 200 and leaves the record completed
\* with the callback's result: its user message, assets, phase, checklist and
\* budget.
C4_CallbackCompletesPending ==
    [][\A id \in GatewayIds : \A body \in CallbackBodies :
          (/\ ev'.op = "callback"
           /\ ev'.id = id
           /\ WellFormedResult(body)
           /\ id \in DOMAIN store
           /\ store[id].status = "pending"
           /\ Callback(id, body)) =>
             /\ ev'.code = 200
             /\ store'[id].status = "completed"
             /\ store'[id].startTime = store[id].startTime
             /\ ~IsSet(store'[id].error)
             /\ CarriesResultOf(store'[id].result, body)]_vars

\* C4 witness: the documented callback has completed a pending record
C4_Witness ==
    /\ ev = Event("callback", OpId(1), 200, "pending")
    /\ store[OpId(1)].status = "completed"
    /\ CarriesResultOf(store[OpId(1)].result, CallbackBody(TRUE, Project, ResultFull, Undefined))
    /\ Get(Get(store[OpId(1)].result, "updatedStateJson"), "budget")
         = Obj({<<"spent", Num(8)>>, <<"total", Num(15)>>})

\* C5: a callback that reports a failure, {operationId, projectId, error} with
\* no result, is answered 200 and turns the record into status error with the
\* reported error.
C5_ErrorReportRecorded ==
    [][\A id \in GatewayIds :
          (ev'.op = "callback" /\ id \in Issued /\ Callback(id, ErrorReport)) =>
             /\ ev'.code = 200
             /\ id \in DOMAIN store'
             /\ store'[id].status = "error"
             /\ store'[id].error = ErrorReport.error]_vars

\* C6: a status query for a terminal record whose startTime lies more than one
\* hour in the past answers 410 and removes the record from the Registry's keys.
C6_ExpiredQueryRemoves ==
    [][\A id \in RequestIds :
          (/\ ev'.op = "status"
           /\ id \in DOMAIN store
           /\ Terminal(store[id])
           /\ now - store[id].startTime > CLEANUP_INTERVAL
           /\ StatusQuery(id)) =>
             /\ ev'.code = 410
             /\ id \notin StoreKeys(store')]_vars

\* C6 witness: a query has found an expired error record and removed it
C6_Witness ==
    /\ ev.op = "status"
    /\ ev.code = 410
    /\ ev.prev = "error"
    /\ ev.id \notin StoreKeys(store)

\* records that are terminal and older than the retention window at time t
OldTerminal(s, t) ==
    {id \in DOMAIN s : Terminal(s[id]) /\ t - s[id].startTime > CLEANUP_INTERVAL}

\* C7: the sweep removes exactly the terminal records older than one hour and
\* leaves the others as they are; neither the sweep nor a status query removes
\* or changes a pending record, however old.
C7_SweepEvictsOldTerminalOnly ==
    [][/\ Sweep =>
            /\ DOMAIN store' = DOMAIN store \ OldTerminal(store, now)
            /\ \A id \in DOMAIN store' : store'[id] = store[id]
       /\ (/\ ev'.op \in {"sweep", "status", "webhook-status"}
           /\ Sweep \/ \E q \in RequestIds : StatusQuery(q) \/ WebhookStatus(q)) =>
            \A id \in DOMAIN store :
               store[id].status = "pending" => (id \in DOMAIN store' /\ store'[id] = store[id])
      ]_vars

\* C7 witness: a sweep has cleaned a record
C7_Witness ==
    /\ ev.op = "sweep"
    /\ ev.code >= 1
    /\ nextOp > 1
    /\ OpId(1) \notin DOMAIN store

\* the records the two writers produce
WrittenByGateway(state) ==
    \E out \in WorkflowOutcomes \cup {AbortOutcome} :
        state = GatewayWrite(out, Project, state.startTime)

WrittenByCallback(state) ==
    \E body \in CallbackBodies :
        CallbackCode(OpId(1), body) = 200 /\ state = CallbackWrite(body, state.startTime)

SameOutcome(a, b) == a.status = b.status /\ a.result = b.result /\ a.error = b.error

\* a step in which a writer writes a terminal status over a terminal record
\* that the other writer has written
OtherWriterTerminalWrite(id) ==
    /\ ev'.id = id
    /\ id \in DOMAIN store
    /\ Terminal(store[id])
    /\ \/ ev'.op = "gateway" /\ GatewayStep(id) /\ WrittenByCallback(store[id])
       \/ ev'.op = "callback" /\ ev'.code = 200 /\ CallbackStep(id)
             /\ WrittenByGateway(store[id])
    /\ Terminal(store'[id])

GatewayRecords(code, startTime) ==
    {GatewayWrite(out, Project, startTime) :
        out \in {o \in WorkflowOutcomes \cup {AbortOutcome} : o.status = code}}

CallbackRecords(startTime) ==
    {CallbackWrite(body, startTime) :
        body \in {b \in CallbackBodies : CallbackCode(OpId(1), b) = 200}}

\* C9: when both writers have written a terminal status for one id, in either
\* order, the Registry holds the record written last.
C9_LastTerminalWriteWins ==
    /\ (ev.op = "gateway" /\ ev.prev \in {"completed", "error"}) =>
          /\ ev.id \in DOMAIN store
          /\ Terminal(store[ev.id]) =>
                store[ev.id] \in GatewayRecords(ev.code, store[ev.id].startTime)
    /\ (ev.op = "callback" /\ ev.code = 200 /\ ev.prev \in {"completed", "error"}) =>
          /\ ev.id \in DOMAIN store
          /\ store[ev.id] \in CallbackRecords(store[ev.id].startTime)

\* C9 witness: the Gateway has written its completed record after the callback
\* had completed the record with another result
C9_Witness ==
    /\ ev = Event("gateway", OpId(1), 200, "completed")
    /\ store[OpId(1)].status = "completed"
    /\ store[OpId(1)].result = TextResult(RawText, Project)

\* C10: once a record is completed, resolving the operation again (a further
\* completion callback with the result already stored, or the Gateway's
\* continuation) leaves the result that a status query returns unchanged.
C10_SecondResolveKeepsResult ==
    [][\A id \in GatewayIds :
          (/\ id \in DOMAIN store
           /\ store[id].status = "completed"
           /\ \/ ev'.op = "gateway" /\ GatewayStep(id)
              \/ \E body \in CallbackBodies :
                    /\ ev'.op = "callback"
                    /\ CallbackCode(id, body) = 200
                    /\ CallbackResult(body) = store[id].result
                    /\ Callback(id, body)) =>
             /\ id \in DOMAIN store'
             /\ StatusResponse(store', id) = StatusResponse(store, id)]_vars

(***************************************************************************)
(* Properties of the Monitor                                               *)
(***************************************************************************)

\* a status poll runs in this step
StatusPollStep == monitor.pc = "poll" /\ monitor' # monitor

\* a database poll runs in this step
DatabasePollStep == monitor.pc = "pollDatabase" /\ monitor' # monitor

\* the promise, once settled, stays as it is
StaysSettled == monitor.pc = "settled" => monitor' = monitor

\* C11: a status poll that begins at elapsed < 30 s uses the 500 ms interval,
\* one that begins at 30 s <= elapsed < 120 s the 2 s interval; a poll that
\* begins at elapsed >= 120 s sends no status request and enters
\* DatabaseFallback.
C11_IntervalByElapsed ==
    [][StatusPollStep =>
         LET elapsed == now - monitor.startTime
         IN /\ elapsed < 30000 =>
                 monitor'.pollInterval = 500 /\ monitor'.phase # "DatabaseFallback"
            /\ (elapsed >= 30000 /\ elapsed < 120000) => monitor'.pollInterval = 2000
            /\ elapsed >= 120000 =>
                 /\ monitor'.pc = "pollDatabase"
                 /\ monitor'.phase = "DatabaseFallback"
                 /\ UNCHANGED serverVars]_vars

\* C11 witness: after fast polls and a medium poll the poll at 120 s has
\* started the fallback without a request
C11_Witness ==
    /\ monitor.phase = "DatabaseFallback"
    /\ monitor.pollInterval = 2000
    /\ monitor.dbStartTime - monitor.startTime = 120000
    /\ monitor.pc = "pollDatabase"

\* C12: the delay scheduled between consecutive status polls does not decrease
\* while the Monitor stays within one phase (FastPoll or MediumPoll).
C12_DelayNonDecreasing ==
    [][(/\ StatusPollStep
        /\ monitor'.pc = "poll"
        /\ monitor.phase \in {"FastPoll", "MediumPoll"}
        /\ monitor'.phase = monitor.phase) =>
          monitor'.delay >= monitor.delay]_vars

\* the record the Registry holds for the Monitor's operation has this status
RecordIs(status) == Monitored \in DOMAIN store /\ store[Monitored].status = status

\* C13: a status poll that is answered status completed resolves the Monitor,
\* with the result of the answer when it carries one and with a generic
\* success message otherwise; it never rejects, and the settled Monitor polls
\* no further.
C13_CompletedResolves ==
    [][/\ (monitor' # monitor /\ ev'.op = "status" /\ RecordIs("completed") /\ PollEndpoint) =>
            /\ monitor'.pc = "settled"
            /\ monitor'.phase = "Resolved"
            /\ Truthy(StatusResponse(store, Monitored).result)
            /\ monitor'.settled = Json(StatusResponse(store, Monitored).result)
       /\ \A answer \in NetworkAnswers :
            (/\ StatusPollStep
             /\ answer.status = 200
             /\ answer.text = "json"
             /\ answer.data.status = "completed"
             /\ ~Truthy(answer.data.result)
             /\ PollNetwork(answer, Null)) =>
               /\ monitor'.pc = "settled"
               /\ monitor'.phase = "Resolved"
               /\ Get(monitor'.settled, "response_to_user").tag = "string"
               /\ Truthy(Get(monitor'.settled, "response_to_user"))
       /\ StaysSettled]_vars

\* C13 witness: the Monitor has resolved with the result the callback stored
C13_Witness ==
    /\ monitor.phase = "Resolved"
    /\ ev.op = "status"
    /\ RecordIs("completed")
    /\ monitor.settled = CallbackResult(CallbackBody(TRUE, Project, ResultFull, Undefined))

\* C14: a status poll that is answered status error rejects the Monitor with
\* the reported error; no further status poll is scheduled and the database
\* fallback is not started.
C14_ErrorRejects ==
    [][/\ (monitor' # monitor /\ ev'.op = "status" /\ RecordIs("error") /\ PollEndpoint) =>
            /\ monitor'.pc = "settled"
            /\ monitor'.phase = "Failed"
            /\ Truthy(store[Monitored].error)
            /\ monitor'.settled = store[Monitored].error
            /\ monitor'.dbStartTime = 0
       /\ StaysSettled]_vars

\* C14 witness: the Monitor has failed with the error the Gateway recorded
C14_Witness ==
    /\ monitor.phase = "Failed"
    /\ monitor.pc = "settled"
    /\ RecordIs("error")
    /\ monitor.settled = store[Monitored].error

\* C15: also in DatabaseFallback the Monitor observes a record that has
\* become completed or error: its next poll resolves with the record's result,
\* respectively fails with the record's error.
C15_TerminalSeenInFallback ==
    [][(DatabasePollStep /\ monitor.phase = "DatabaseFallback") =>
          /\ RecordIs("error") =>
                monitor'.phase = "Failed" /\ monitor'.settled = store[Monitored].error
          /\ RecordIs("completed") =>
                /\ monitor'.phase = "Resolved"
                /\ monitor'.settled = Json(StatusResponse(store, Monitored).result)]_vars

\* pollDatabase runs with this read, which returned a row, before the ceiling
DatabaseReadStep(read) ==
    /\ DatabasePollStep
    /\ now - monitor.dbStartTime <= maxMonitoringTime
    /\ Truthy(read)
    /\ PollDatabase(read)

\* the reads pollDatabase can be given in the current state
DatabaseReads == {db, Null, Undefined}

\* the last message of the read is an assistant's text, the history of the
\* read is as long as the Baseline's and the latest content differs from it
SameLengthOtherContent(read, baseline) ==
    /\ Length(CurrentHistory(read)) = baseline.historyLength
    /\ MessageText(Last(CurrentHistory(read))) # baseline.latestMessageContent

\* C16: a database read of the fallback is a completion signal exactly when
\* the latest message's content, its timestamp or the serialized assets
\* differ from the Baseline, whatever the history's length: the Monitor
\* resolves from a read only on such a difference, and it resolves on every
\* such difference whose history holds an assistant's text, also when the
\* history is as long as the Baseline's.
C16_SignalIsContentDiff ==
    [][\A read \in DatabaseReads :
         DatabaseReadStep(read) =>
           LET history == CurrentHistory(read)
               assets == OrElse(OptGet(Get(read, "state_data"), "assets"), EmptyObject)
               differs == \/ MessageText(Last(history)) # monitor.baseline.latestMessageContent
                          \/ MessageTime(Last(history)) # monitor.baseline.latestMessageTimestamp
                          \/ Stringify(assets) # monitor.baseline.assetHash
               answered == \E i \in 1..Length(history) : IsAssistantText(history.items[i])
           IN /\ monitor'.pc = "settled" => differs /\ monitor'.phase = "Resolved"
              /\ (differs /\ answered) => monitor'.phase = "Resolved"
              /\ ~differs => monitor'.pc = "pollDatabase"]_vars

\* C16 witness: the Monitor resolved from a read that is as long as the
\* Baseline's history and differs from it in the latest content
C16_Witness ==
    /\ monitor.phase = "Resolved"
    /\ monitor.dbStartTime > 0
    /\ Truthy(db)
    /\ monitor.settled = DatabaseResult(db, Project)
    /\ monitor.baseline.historyLength = 1
    /\ SameLengthOtherContent(db, monitor.baseline)

\* C17: on a completion signal the fallback resolves with the text of the
\* last message of the fetched history that has role assistant and a
\* non-empty text; when the history has none it schedules the next database
\* poll instead of resolving.
C17_LatestAssistantAdopted ==
    [][\A read \in DatabaseReads :
         (DatabaseReadStep(read) /\ ContentDiffers(read, monitor.baseline)) =>
           LET history == CurrentHistory(read)
               texts == {i \in 1..Length(history) : IsAssistantText(history.items[i])}
           IN IF texts = {}
              THEN /\ monitor'.pc = "pollDatabase"
                   /\ monitor'.due = now + DB_POLL_INTERVAL
                   /\ monitor'.settled = monitor.settled
              ELSE LET last == CHOOSE i \in texts : \A j \in texts : j <= i
                       msg == history.items[last]
                   IN /\ monitor'.phase = "Resolved"
                      /\ Get(monitor'.settled, "response_to_user") =
                            OrElse(Get(msg, "content"), Get(msg, "message"))]_vars

\* C17 witness: the Monitor resolved with the text of an assistant's message
\* that is neither the first assistant's text nor the last message of the
\* history it read
C17_Witness ==
    /\ monitor.phase = "Resolved"
    /\ db = RowFinished
    /\ Get(monitor.settled, "response_to_user") = TextB
    /\ ~IsAssistantText(Last(CurrentHistory(db)))

\* C17 witness of the other case: a read differs from the Baseline, holds no
\* assistant's text, and the fallback has scheduled the next database poll
C17_WitnessNoText ==
    /\ monitor.pc = "pollDatabase"
    /\ monitor.due = now + DB_POLL_INTERVAL
    /\ db = RowUserOnly
    /\ ContentDiffers(db, monitor.baseline)

\* C18: a database poll that finds the monitoring ceiling passed resolves the
\* Monitor with a "still processing" pseudo-result; it does not reject and
\* the settled Monitor polls no further.
C18_CeilingResolves ==
    [][/\ (DatabasePollStep /\ now - monitor.dbStartTime > maxMonitoringTime) =>
            /\ monitor'.pc = "settled"
            /\ monitor'.phase = "TimedOut"
            /\ Truthy(Get(monitor'.settled, "response_to_user"))
            /\ Get(Get(monitor'.settled, "updatedStateJson"), "phase") = Str(<<"processing">>)
       /\ StaysSettled]_vars

\* C18 witness: the Monitor has timed out, 20 minutes after the fallback began
C18_Witness ==
    /\ monitor.phase = "TimedOut"
    /\ monitor.pc = "settled"
    /\ now - monitor.dbStartTime > maxMonitoringTime

\* C19: the ceiling of 20 minutes counts from submission: a database poll
\* that runs later than 20 minutes after the Monitor started reads nothing
\* and times out.
C19_CeilingFromSubmission ==
    [][(DatabasePollStep /\ now - monitor.startTime > maxMonitoringTime) =>
          monitor'.phase = "TimedOut"]_vars

\* the answers that count as gateway timeouts
GatewayTimeoutAnswers ==
    {answer \in NetworkAnswers : answer.kind = "response" /\ answer.status \in {524, 502, 503}}

\* C20: the third gateway-timeout answer (502, 503 or 524) of the fast phase
\* makes the Monitor probe the database; when the probed project shows no
\* completion the next status poll is scheduled, and the Monitor does not
\* enter the database fallback.
C20_ProbeAfterThreeTimeouts ==
    [][\A answer \in GatewayTimeoutAnswers : \A read \in {OptGet(db, "state_data"), Null} :
         (/\ StatusPollStep
          /\ monitor.gatewayTimeouts = 2
          /\ now - monitor.startTime < 30000
          /\ PollNetwork(answer, read)) =>
            /\ monitor'.gatewayTimeouts = 3
            /\ monitor'.probes = monitor.probes + 1
            /\ currentProject' = RefreshedProject(currentProject, read, now)
            /\ ~IsOperationCompleteFromState(currentProject') =>
                  /\ monitor'.pc = "poll"
                  /\ monitor'.due > now
                  /\ monitor'.phase = "FastPoll"
                  /\ monitor'.dbStartTime = 0]_vars

\* C20 witness: three gateway timeouts in the fast phase, one probe that
\* showed no completion, and the next status poll is scheduled
C20_Witness ==
    /\ monitor.gatewayTimeouts = 3
    /\ monitor.probes = 1
    /\ monitor.pc = "poll"
    /\ monitor.phase = "FastPoll"
    /\ monitor.due > now
    /\ ~IsOperationCompleteFromState(currentProject)

(***************************************************************************)
(* The chat: ChatComposer.handleSubmit and the Application State Store      *)
(* (addMessage, setCurrentProject, refreshProjectStateFromSupabase) for    *)
(* one project, with the rows the workflow saves.  The Monitor's run is     *)
(* seen from outside: sendWebhookMessage returns one of its results, or     *)
(* throws.                                                                 *)
(***************************************************************************)

\* number of messages the user submits in a run of the model
MaxSubmits == 2

StoreInstants == StampInstants

\* a new project (createNewProject)
NewProject ==
    SpreadWith(ProjectState(EmptyObject, Str(<<"initial">>), EmptyObject, DefaultBudget),
               "history", Arr(<<>>))

\* the history as the workflow saves it: the user's message under the id the
\* browser gave it, and the answer
RowConversation ==
    Row(Arr(<<Obj({<<"id", Str(<<"msg_", ToString(Epoch)>>)>>, <<"role", Str(<<"user">>)>>,
                   <<"content", Str(<<"hi">>)>>, <<"timestamp", Iso(Epoch)>>}),
              Msg("assistant", TextA, Iso(Epoch + 30000))>>),
        EmptyObject, EmptyObject)

\* a history of the workflow without the browser's ids: the two answers are
\* dated, the last entry has a timestamp of 1970
RowDated ==
    Row(Arr(<<Msg("assistant", TextA, Iso(Epoch)),
              Msg("assistant", TextB, Iso(Epoch + 30000)),
              Msg("assistant", TextB, Iso1970)>>),
        EmptyObject, EmptyObject)

\* the history as the workflow keeps it in its own entries, without the
\* browser's ids: the user's message and two answers
RowRetold ==
    Row(Arr(<<Msg("user", Str(<<"hi">>), Iso(Epoch)),
              Msg("assistant", TextA, Iso(Epoch + 29999)),
              Msg("assistant", TextB, Iso(Epoch + 30000))>>),
        EmptyObject, EmptyObject)

StoreRows == {Row0, RowFinished, RowConversation, RowDated, RowRetold}

\* what sendWebhookMessage returns: results of the Monitor
StoreResponses ==
    {FallbackResponse, DatabaseResult(RowFinished, Project),
     TimedOutResult(Project, maxMonitoringTime + 1)}

StoreInit ==
    /\ store = EmptyStore
    /\ now = Epoch
    /\ nextSweep = Epoch + CLEANUP_INTERVAL
    /\ configured = TRUE
    /\ nextOp = 1
    /\ calls = [id \in GatewayIds |-> Idle]
    /\ ev = Event("init", NoId, 0, "absent")
    /\ db = Null
    /\ currentProject = NewProject
    /\ monitor = NoMonitor
    /\ composer = IdleComposer

\* the other variables of the model
notStoreVars == <<store, nextSweep, configured, nextOp, calls, ev, monitor>>

\* handleSubmit without the test of isLoading
HandleSubmit_WhileLoading(text) ==
    /\ Truthy(OptGet(currentProject, "project_id"))
    /\ \A i \in 1..Len(HistoryOf(currentProject)) :
          Get(HistoryOf(currentProject)[i], "id") # Get(UserMessage(text, now), "id")
    /\ Len(SelectSeq(HistoryOf(currentProject),
                     LAMBDA msg : Get(msg, "role") = Str(<<"user">>))) < MaxSubmits
    /\ currentProject' = AddMessage(currentProject, UserMessage(text, now))
    /\ composer' = [Composer(TRUE, now, "submit", HistoryOf(currentProject), Null)
                       EXCEPT !.error = composer.error, !.active = composer.active + 1]
    /\ UNCHANGED <<notStoreVars, now, db>>

\* handleSubmit up to the call of sendWebhookMessage.  Two submissions are
\* not made within the same millisecond.
HandleSubmit(text) ==
    /\ ~composer.isLoading
    /\ Truthy(OptGet(currentProject, "project_id"))
    /\ \A i \in 1..Len(HistoryOf(currentProject)) :
          Get(HistoryOf(currentProject)[i], "id") # Get(UserMessage(text, now), "id")
    /\ Len(SelectSeq(HistoryOf(currentProject),
                     LAMBDA msg : Get(msg, "role") = Str(<<"user">>))) < MaxSubmits
    /\ currentProject' = AddMessage(currentProject, UserMessage(text, now))
    /\ composer' = [Composer(TRUE, now, "submit", HistoryOf(currentProject), Null)
                       EXCEPT !.error = composer.error, !.active = composer.active + 1]
    /\ UNCHANGED <<notStoreVars, now, db>>

\* handleSubmit from the return of sendWebhookMessage on; read is what
\* fetchProjectState returns to the refresh
ResponseArrives(response, read) ==
    /\ composer.isLoading
    /\ currentProject' = AfterResponse(currentProject, response, read, now)
    /\ composer' = [Composer(FALSE, composer.submittedAt, "response",
                             HistoryOf(WithResponseMessage(currentProject, response, now)),
                             read)
                       EXCEPT !.error = RefreshError(read, composer.error),
                              !.active = composer.active - 1]
    /\ UNCHANGED <<notStoreVars, now, db>>

\* handleSubmit when sendWebhookMessage throws
SendFails ==
    /\ composer.isLoading
    /\ composer' = [Composer(FALSE, composer.submittedAt, "failed",
                             HistoryOf(currentProject), Null)
                       EXCEPT !.error = composer.error, !.active = composer.active - 1]
    /\ UNCHANGED <<notStoreVars, now, db, currentProject>>

\* the progress monitor's refresh, from one minute after the submission on
ProgressRefresh(read) ==
    /\ composer.isLoading
    /\ now - composer.submittedAt >= 60000
    /\ currentProject' = RefreshedProject(currentProject, read, now)
    /\ composer' = [Composer(TRUE, composer.submittedAt, "refresh",
                             HistoryOf(currentProject), read)
                       EXCEPT !.error = RefreshError(read, composer.error),
                              !.active = composer.active]
    /\ UNCHANGED <<notStoreVars, now, db>>

\* the workflow saves the project's state
RemoteSaves(row) ==
    /\ db' = row
    /\ UNCHANGED <<notStoreVars, now, currentProject, composer>>

StoreTick(t) ==
    /\ t > now
    /\ now' = t
    /\ UNCHANGED <<notStoreVars, db, currentProject, composer>>

\* what the read of a refresh can give: the state of the row, null for a
\* missing row, or a thrown error
RefreshReads(row) == {OptGet(row, "state_data"), Null, PermissionError, OtherReadError}

StoreNext ==
    \/ HandleSubmit(Str(<<"hi">>))
    \/ \E response \in StoreResponses :
          \E read \in RefreshReads(db) : ResponseArrives(response, read)
    \/ SendFails
    \/ \E read \in RefreshReads(db) : ProgressRefresh(read)
    \/ \E row \in StoreRows : RemoteSaves(row)
    \/ \E t \in StoreInstants : StoreTick(t)

StoreSpec == StoreInit /\ [][StoreNext]_vars

(***************************************************************************)
(* Properties of the project history                                       *)
(***************************************************************************)

\* the step is a refresh from the database made by the chat (alone or at the
\* end of handleSubmit); composer' holds the history it found and the remote
\* state it read
RefreshStep == composer' # composer /\ composer'.did \in {"refresh", "response"}

\* the remote history the refresh of this step read
RemoteHistory(read) ==
    IF OptGet(read, "history").tag = "array" THEN OptGet(read, "history").items ELSE <<>>

\* the message is younger than 30 seconds at time t
Younger(msg, t) == HasTime(msg) /\ t - GetTime(msg) < 30000

\* C21: a refresh that reads a remote history not longer than the local one,
\* while no local message is younger than 30 seconds, leaves the local
\* history as it is: the same entries in the same order.
C21_ShortRemoteIsNoOp ==
    [][(/\ RefreshStep
        /\ Len(RemoteHistory(composer'.read)) <= Len(composer'.before)
        /\ \A i \in 1..Len(composer'.before) : ~Younger(composer'.before[i], now)) =>
          HistoryOf(currentProject') = composer'.before]_vars

\* C21 witness: a refresh has read a remote history as long as the local one,
\* a minute after the local message was added, and the history is unchanged
C21_Witness ==
    /\ composer.did = "refresh"
    /\ Len(composer.before) > 0
    /\ Len(RemoteHistory(composer.read)) = Len(composer.before)
    /\ \A i \in 1..Len(composer.before) : ~Younger(composer.before[i], now)
    /\ HistoryOf(currentProject) = composer.before

\* a message of this id is in the history
HasId(history, id) == \E j \in 1..Len(history) : Get(history[j], "id") = id

\* the user's messages of the history that are younger than 30 seconds at t
YoungUserMessages(history, t) ==
    {i \in 1..Len(history) :
        Get(history[i], "role") = Str(<<"user">>) /\ Younger(history[i], t)}

\* C22: whatever the remote state, a user's message that was added to the
\* local history less than 30 seconds before a refresh is in the history
\* after the refresh.
C22_RecentUserMessageKept ==
    [][RefreshStep =>
         \A i \in YoungUserMessages(composer'.before, now) :
            HasId(HistoryOf(currentProject'), Get(composer'.before[i], "id"))]_vars

\* C22 witness: a refresh took the longer remote history, which did not hold
\* the user's message of 29999 ms before, and the message is in the result
C22_Witness ==
    /\ composer.did = "response"
    /\ Len(RemoteHistory(composer.read)) > Len(composer.before)
    /\ \E i \in YoungUserMessages(composer.before, now) :
          /\ now - GetTime(composer.before[i]) = 29999
          /\ ~HasId(NormalizedHistory(RemoteHistory(composer.read), now),
                    Get(composer.before[i], "id"))
          /\ HasId(HistoryOf(currentProject), Get(composer.before[i], "id"))

\* the message is in the history: an entry has its id, or its role and text
Holds(history, msg) ==
    \E j \in 1..Len(history) :
        \/ Get(history[j], "id") = Get(msg, "id")
        \/ /\ Get(history[j], "role") = Get(msg, "role")
           /\ Get(history[j], "content") = Get(msg, "content")

\* C23: the history of the project only grows: every message that is in the
\* history before a step (a message added, a Monitor result applied, a
\* refresh) is in the history after it.
C23_HistoryOnlyGrows ==
    [][\A i \in 1..Len(HistoryOf(currentProject)) :
          Holds(HistoryOf(currentProject'), HistoryOf(currentProject)[i])]_vars

\* the entries are ordered by non-decreasing time
OrderedByTime(history) ==
    \A i \in 1..Len(history) : \A j \in i..Len(history) :
        HasTime(history[i]) /\ HasTime(history[j]) /\ GetTime(history[i]) <= GetTime(history[j])

\* the entries of the remote history as the merged history holds them: text
\* and role of the entry (the text of `message` before that of `content`,
\* role assistant when there is none), in the remote order
RemoteEntries(remote) ==
    [i \in 1..Len(remote) |->
        <<OrElse(OrElse(Get(remote[i], "message"), Get(remote[i], "content")), Str(<<>>)),
          OrElse(Get(remote[i], "role"), Str(<<"assistant">>))>>]

\* the positions of the merged history that hold the remote entries: the
\* entry at index k (from 0) has the remote id or the id made for index k
RemotePositions(history, remote) ==
    {j \in 1..Len(history) :
        \E k \in 1..Len(remote) :
            /\ Get(history[j], "content") = RemoteEntries(remote)[k][1]
            /\ Get(history[j], "role") = RemoteEntries(remote)[k][2]
            /\ \/ Get(history[j], "id") = Get(remote[k], "id")
               \/ /\ ~Truthy(Get(remote[k], "id"))
                  /\ Get(history[j], "id").s[1] = "supabase_"
                  /\ Get(history[j], "id").s[3] = ToString(k - 1)}

\* C30: a refresh that reads a remote history longer than the local one
\* makes the history the remote entries plus the local user's messages that
\* are younger than 30 seconds and whose id no remote entry has, and nothing
\* else, ordered by non-decreasing timestamp.
C30_LongerRemoteMerged ==
    [][(RefreshStep /\ Len(RemoteHistory(composer'.read)) > Len(composer'.before)) =>
         LET remote == RemoteHistory(composer'.read)
             before == composer'.before
             merged == HistoryOf(currentProject')
             added == {i \in YoungUserMessages(before, now) :
                          \A k \in 1..Len(remote) :
                              Get(remote[k], "id") # Get(before[i], "id")}
             local == {j \in 1..Len(merged) :
                          \E i \in added :
                              /\ Get(merged[j], "id") = Get(before[i], "id")
                              /\ Get(merged[j], "content") = Get(before[i], "content")
                              /\ Get(merged[j], "role") = Get(before[i], "role")
                              /\ Get(merged[j], "timestamp") = Get(before[i], "timestamp")}
         IN /\ Cardinality(RemotePositions(merged, remote)) = Len(remote)
            /\ Cardinality(local) = Cardinality(added)
            /\ RemotePositions(merged, remote) \cap local = {}
            /\ RemotePositions(merged, remote) \cup local = 1..Len(merged)
            /\ OrderedByTime(merged)]_vars

\* C30 witness: the longer remote history was taken, the user's recent
\* message was added to it, and the sort has put it before a remote entry
C30_Witness ==
    /\ composer.did = "response"
    /\ Len(RemoteHistory(composer.read)) > Len(composer.before)
    /\ Len(HistoryOf(currentProject)) = Len(RemoteHistory(composer.read)) + 1
    /\ \E j \in 1..(Len(HistoryOf(currentProject)) - 1) :
          /\ Get(HistoryOf(currentProject)[j], "role") = Str(<<"user">>)
          /\ HasId(composer.before, Get(HistoryOf(currentProject)[j], "id"))
          /\ GetTime(HistoryOf(currentProject)[j]) < GetTime(HistoryOf(currentProject)[j + 1])

(***************************************************************************)
(* Further properties of the Monitor                                       *)
(***************************************************************************)

\* C24: the polls of a Monitor run are sequential: while the promise is not
\* settled exactly one poll (status or database) or fallback start is running
\* or waiting in a timer, and none once it is settled; a poll that does not
\* settle schedules its successor for a time not before its own; and once
\* the fallback has been started or scheduled no status poll follows.
C24_PollsSequential ==
    [][/\ monitor'.timers = IF monitor'.pc = "settled" THEN 0 ELSE 1
       /\ (monitor' # monitor /\ monitor'.pc # "settled") => monitor'.due >= now
       /\ monitor.pc \in {"startFallback", "pollDatabase"} =>
             monitor'.pc \in {"startFallback", "pollDatabase", "settled"}]_vars

\* C24 witness: after status polls with gateway timeouts and a start of the
\* fallback, one database poll is waiting in its timer
C24_Witness ==
    /\ monitor.pc = "pollDatabase"
    /\ monitor.gatewayTimeouts > 0
    /\ monitor.dbStartTime > monitor.startTime
    /\ monitor.due = now + DB_POLL_INTERVAL
    /\ monitor.timers = 1

\* C25: the Monitor's promise is rejected only by a status poll that the
\* endpoint answers with status error: gateway timeouts, not-found and other
\* non-OK answers, network errors, empty or undecodable bodies and failing
\* database reads never reject it.
C25_RejectsOnlyOnErrorStatus ==
    [][(monitor'.phase = "Failed" /\ monitor.phase # "Failed") =>
          /\ monitor.pc = "poll"
          /\ RecordIs("error")
          /\ ev'.op = "status"
          /\ ev'.code = 200
          /\ ev'.id = Monitored
          /\ monitor'.settled = store[Monitored].error]_vars

\* C25 witness: a run that met gateway timeouts and whose record was deleted
\* (not found) has ended in the fallback's ceiling: resolved, not rejected
C25_Witness ==
    /\ monitor.pc = "settled"
    /\ monitor.phase = "TimedOut"
    /\ monitor.gatewayTimeouts >= PROBE_AFTER
    /\ Monitored \notin DOMAIN store

\* C26: if timers fire and every request returns or fails, every run of the
\* Monitor eventually settles (Resolved, Failed or TimedOut), whatever the
\* status endpoint and the database answer.
C26_EventuallySettles == <>(monitor.pc = "settled")

\* C26 witness: a run that nothing resolved has been ended by the ceiling,
\* at a database poll after the last instant at which an answer changed
C26_Witness ==
    /\ monitor.pc = "settled"
    /\ monitor.phase \in {"Resolved", "Failed", "TimedOut"}
    /\ \A u \in MonitorInstants : u < now

\* a status poll receives a not-found answer and arms the timer that starts
\* the fallback
NotFoundTrigger ==
    /\ monitor.pc = "poll"
    /\ monitor'.pc = "startFallback"
    /\ monitor'.due = now + NOT_FOUND_DELAY

\* C27: before 120 s the Monitor goes to the fallback on account of a
\* not-found answer only when every status poll of the last 30 s or more
\* received not found; one not-found answer after other answers does not
\* start the fallback.
C27_NotFoundForThirtySeconds ==
    [][NotFoundTrigger =>
          /\ monitor.notFoundSince >= 0
          /\ now - monitor.notFoundSince >= NOT_FOUND_WINDOW]_vars

\* a status poll receives a pending answer and arms the timer that starts the
\* fallback
PendingTrigger ==
    /\ monitor.pc = "poll"
    /\ monitor'.pc = "startFallback"
    /\ monitor'.due = now + PENDING_DELAY

\* C28: before 120 s the Monitor goes to the fallback on account of a pending
\* answer only when the run has also seen gateway-level failures (524, 502 or
\* 503 answers); a run with pending answers and no such failure stays in
\* status polling until 120 s.
C28_PendingNeedsGatewayFailures ==
    [][PendingTrigger => monitor.gatewayTimeouts > 0]_vars

\* every status poll of the run so far has failed with a network error, and
\* there has been one
OnlyNetworkErrorsSoFar ==
    /\ monitor.pc = "poll"
    /\ monitor.delay > 0
    /\ monitor.networkErrorsOnly

\* C29: transient failures are retried inside status polling for their window
\* (2 minutes for decode failures, 5 minutes for network errors) before the
\* Monitor goes to the fallback on their account; in particular a run whose
\* polls have all failed with network errors is still status-polling between
\* 2 and 5 minutes elapsed.
C29_NetworkErrorsRetriedFiveMinutes ==
    [][(/\ OnlyNetworkErrorsSoFar
        /\ now - monitor.startTime >= DECODE_WINDOW
        /\ now - monitor.startTime < NETWORK_WINDOW
        /\ monitor' # monitor)
       => monitor'.pc = "poll"]_vars

(***************************************************************************)
(* The Gateway and the shapes of the workflow's reply.  One submission     *)
(* after another is accepted, the workflow answers 200 with a body of one  *)
(* of the shapes below, and the Status Query Endpoint is asked for the     *)
(* record.                                                                 *)
(***************************************************************************)

\* state data with nothing but a phase
RawStateDataBare ==
    Arr(<<Obj({<<"state_data", Obj({<<"phase", Str(<<"script">>)>>})>>})>>)

\* an object with the user message and no state, and one with the state and
\* no user message
RawOnlyMessage == Obj({<<"response_to_user", Str(<<"done">>)>>})
RawOnlyState ==
    Obj({<<"updatedStateJson", Get(RawCanonical, "updatedStateJson")>>})

\* the bodies of the workflow's 200 replies: text, JSON text, the array with
\* state_data, the expected object whole and in part, and other JSON values
ShapeOutcomes ==
    {Response(200, <<"OK">>, FALSE, RawText),
     Response(200, <<"OK">>, FALSE, Str(<<>>))}
    \cup {Response(200, <<"OK">>, TRUE, raw) :
            raw \in {RawText, RawStateData, RawStateDataBare, RawCanonical,
                     RawOnlyMessage, RawOnlyState, RawUnknown, Num(42),
                     Bool(TRUE), Arr(<<>>), Arr(<<RawUnknown>>), EmptyObject, Null}}

ShapeInit == Init /\ configured

ShapeNext ==
    \/ Submit(TRUE) /\ UNCHANGED clientVars
    \/ \E id \in GatewayIds : \E out \in ShapeOutcomes :
          GatewayEnds(id, out) /\ UNCHANGED clientVars
    \/ \E id \in Issued : StatusQuery(id) /\ UNCHANGED clientVars
    \/ \E t \in ClockInstants : Tick(t) /\ UNCHANGED clientVars

ShapeSpec == ShapeInit /\ [][ShapeNext]_vars

\* v has the fields of a ProjectState: project_id, history, assets, phase and
\* checklist (the Gateway writes the checklist as an object)
ProjectStateShaped(v) ==
    /\ v.tag = "object"
    /\ Get(v, "project_id").tag = "string"
    /\ Get(v, "history").tag = "array"
    /\ Get(v, "assets").tag = "object"
    /\ Get(v, "phase").tag = "string"
    /\ Get(v, "checklist").tag \in {"object", "array"}

\* r is {response_to_user: string, updatedStateJson: ProjectState-shaped}
CanonicalResult(r) ==
    /\ r.tag = "object"
    /\ Get(r, "response_to_user").tag = "string"
    /\ ProjectStateShaped(Get(r, "updatedStateJson"))

\* a reply that is no text, holds no state_data and has neither field of the
\* expected object
Unrecognized(raw) ==
    /\ raw.tag # "string"
    /\ ~HasStateData(raw)
    /\ ~Nullish(raw)
    /\ ~Truthy(Get(raw, "response_to_user"))
    /\ ~Truthy(Get(raw, "updatedStateJson"))

\* C31: whatever the shape of the workflow's 200 reply, a completed record
\* the Gateway writes holds a result with a string user message and a
\* ProjectState-shaped updated state, and for an unrecognized shape the raw
\* reply is inside the assets of that result.
C31_EveryShapeCanonical ==
    [][\A id \in GatewayIds : \A out \in ShapeOutcomes :
          (/\ ev'.op = "gateway"
           /\ ev'.id = id
           /\ GatewayEnds(id, out)
           /\ store'[id].status = "completed")
          => /\ CanonicalResult(store'[id].result)
             /\ Unrecognized(out.body) =>
                  Get(Get(Get(store'[id].result, "updatedStateJson"), "assets"),
                      "raw_response") = out.body]_vars

(***************************************************************************)
(* sendWebhookMessage from the POST on.  The composer has added the user's *)
(* message; the message is posted to the Gateway, which accepts it and     *)
(* starts the workflow; pollForOperationCompletion then reads the row for  *)
(* the Baseline and starts the Monitor.  The status polls of this run get  *)
(* gateway timeouts only, so the Monitor settles from the database.  In    *)
(* composer.read the row at the time of the POST is kept.                  *)
(***************************************************************************)

\* the rows the project may have when the message is sent
SendRows == InitialRows \cup {RowFinished}

SendInit ==
    /\ store = EmptyStore
    /\ now = Epoch
    /\ nextSweep = Epoch + CLEANUP_INTERVAL
    /\ configured = TRUE
    /\ nextOp = 1
    /\ calls = [id \in GatewayIds |-> Idle]
    /\ ev = Event("init", NoId, 0, "absent")
    /\ db \in SendRows
    /\ currentProject = InitialProject
    /\ monitor = NoMonitor
    /\ composer = Composer(TRUE, Epoch, "submit", HistoryOf(InitialProject), Null)

\* fetch('/api/webhook', {method: 'POST'}) answered 202 with the operation id
Send ==
    /\ monitor.pc = "none"
    /\ nextOp = 1
    /\ Submit(TRUE)
    /\ monitor' = [NoMonitor EXCEPT !.pc = "capture"]
    /\ composer' = [composer EXCEPT !.read = db]
    /\ UNCHANGED <<db, currentProject>>

\* the workflow of the submitted operation saves the project's state
OperationSaves(row) ==
    /\ Monitored \in DOMAIN calls
    /\ calls[Monitored].pc = "calling"
    /\ WorkflowSaves(row)

\* pollForOperationCompletion up to the first poll: the Baseline from the row
\* read now, the empty Baseline when the read throws (ok = FALSE)
CaptureAndStart(ok) ==
    /\ monitor.pc = "capture"
    /\ monitor' = StartMonitor(IF ok THEN CaptureBaseline(db) ELSE EmptyBaseline, now)
    /\ UNCHANGED <<serverVars, db, currentProject, composer>>

\* the status polls are answered 524, 502 or 503
SendNext ==
    \/ Send
    \/ \E row \in SavedRows : OperationSaves(row)
    \/ \E ok \in BOOLEAN : CaptureAndStart(ok)
    \/ \E answer \in GatewayTimeoutAnswers :
          \E read \in {OptGet(db, "state_data"), Null} : PollNetwork(answer, read)
    \/ PollSwitches
    \/ \E read \in {db, Null} : PollDatabase(read)
    \/ \E read \in RefreshReads(db) : ProgressRefresh(read)
    \/ \E t \in MonitorInstants :
          Running /\ TimerWaits(t) /\ Tick(t) /\ UNCHANGED clientVars
    \/ Running /\ TimerFiresLate /\ UNCHANGED clientVars

SendSpec == SendInit /\ [][SendNext]_vars

\* the Monitor has been started in this run
Started == monitor.pc \notin {"none", "capture"}

\* C32: the Baseline is taken before the operation starts: a Baseline taken
\* from the database is the one of the row as it was when the message was
\* submitted, so no write of the operation is part of it.
C32_BaselineBeforeSubmission ==
    Started => monitor.baseline \in {CaptureBaseline(composer.read), EmptyBaseline}

\* C33: a missing row is no error in either read path: a refresh that finds
\* no row leaves the store's project and its error as they are, and a database
\* poll of the fallback that finds no row settles nothing and schedules the
\* next database poll.
C33_MissingRowIsNormal ==
    [][/\ (/\ composer'.did = "refresh"
           /\ composer' # composer
           /\ composer'.read = Null)
          => /\ currentProject' = currentProject
             /\ composer'.error = composer.error
       /\ (/\ monitor.pc = "pollDatabase"
           /\ now - monitor.dbStartTime <= maxMonitoringTime
           /\ PollDatabase(Null))
          => /\ monitor'.pc = "pollDatabase"
             /\ monitor'.due = now + DB_POLL_INTERVAL
             /\ monitor'.settled = monitor.settled
             /\ monitor'.phase = "DatabaseFallback"]_vars

\* C33 witness: the project has no row; a refresh has found none and a
\* database poll of the fallback has found none and set the next poll
C33_Witness ==
    /\ db = Null
    /\ composer.did = "refresh"
    /\ composer.read = Null
    /\ composer.error = Null
    /\ currentProject = InitialProject
    /\ monitor.pc = "pollDatabase"
    /\ monitor.due = monitor.dbStartTime + DB_POLL_INTERVAL

\* C34: the early database probe is made once in a run of the Monitor: after
\* a probe that found no completion, further gateway timeouts lead to status
\* polls and to no other probe.
C34_ProbeOncePerRun == monitor.probes <= 1

\* C35: at most one Monitor is active at a time: the composer starts no
\* submission while a call of sendWebhookMessage has not returned, and it is
\* open for a submission (isLoading is false) exactly when none is running.
C35_OneMonitorAtATime ==
    /\ composer.active <= 1
    /\ composer.isLoading <=> composer.active = 1

\* C35 witness: a second message is submitted after the first submission has
\* settled, and one Monitor is active
C35_Witness ==
    /\ composer.did = "submit"
    /\ composer.active = 1
    /\ \E i \in 1..Len(composer.before) : Get(composer.before[i], "role") = Str(<<"user">>)

\* C36: once a record is terminal its status never returns to pending: no step
\* (in particular not the Gateway's call ending with 502/503/524, an abort or
\* a timeout error after the callback completed the record) leaves a terminal
\* record pending or without the result it held.
C36_TerminalNeverPending ==
    [][\A id \in GatewayIds :
          (id \in DOMAIN store /\ id \in DOMAIN store' /\ Terminal(store[id])) =>
             /\ store'[id].status # "pending"
             /\ IsSet(store[id].result) => IsSet(store'[id].result)]_vars

\* C37: when the Monitor resolves from database evidence (the content
\* comparison of the DatabaseFallback or the probe on gateway timeouts), the
\* evidence postdates the submission: the project's row has been written since
\* the message was submitted, also when capturing the Baseline failed.
C37_EvidencePostdatesSubmission ==
    (monitor.pc = "settled" /\ monitor.phase = "Resolved") => db # composer.read

\* the assets, phase and checklist of a project
ProjectFields(project) ==
    <<OptGet(project, "assets"), OptGet(project, "phase"), OptGet(project, "checklist")>>

\* the results of the Monitor that carry no state of the project
PseudoResults == {FallbackResponse, TimedOutResult(Project, maxMonitoringTime + 1)}

\* C38: applying a result of the Monitor that carries no real state (the
\* pseudo-result of the monitoring ceiling, or the success synthesized for a
\* completed record without result) leaves the store's assets, phase and
\* checklist as they were, also when the refresh that follows reads nothing;
\* with a refresh that reads a state they are what the refresh alone gives.
C38_PseudoResultKeepsState ==
    [][\A response \in PseudoResults : \A read \in RefreshReads(db) :
          ResponseArrives(response, read) =>
             ProjectFields(currentProject') =
                ProjectFields(RefreshedProject(currentProject, read, now))]_vars

\* C39: the Status Query Endpoint is a read-only view: a status query creates
\* no record and changes no field of any record, and a query for a record that
\* is not expired (or for no record) leaves the whole Registry as it is.
C39_StatusQueryReadOnly ==
    [][(ev'.op = "status" /\ StatusQuery(ev'.id)) =>
          /\ DOMAIN store' \subseteq DOMAIN store
          /\ \A id \in DOMAIN store' : store'[id] = store[id]
          /\ (\/ ev'.id \notin DOMAIN store
              \/ store[ev'.id].status = "pending"
              \/ store[ev'.id].startTime >= now - CLEANUP_INTERVAL) => store' = store]_vars

\* C39 witness: a status query has answered 200 for a completed record that is
\* still held with its result
C39_Witness ==
    /\ ev = Event("status", OpId(1), 200, "completed")
    /\ OpId(1) \in DOMAIN store
    /\ store[OpId(1)].status = "completed"
    /\ IsSet(store[OpId(1)].result)

\* the number of the user's messages with this text in the history
UserCopies(history, text) ==
    Cardinality({j \in 1..Len(history) :
                    /\ Get(history[j], "role") = Str(<<"user">>)
                    /\ Get(history[j], "content") = text})

\* C40: when a refresh adopts the remote history, a recent local user message
\* that the remote history already contains is not added a second time: where
\* the remote history holds the user's text as often as the local history
\* does, the merged history holds it as often as the remote one.
C40_SentMessageOnce ==
    [][(RefreshStep /\ Len(RemoteHistory(composer'.read)) > Len(composer'.before)) =>
         LET remote == NormalizedHistory(RemoteHistory(composer'.read), now)
             before == composer'.before
         IN \A i \in YoungUserMessages(before, now) :
               LET text == Get(before[i], "content")
               IN UserCopies(remote, text) >= UserCopies(before, text) =>
                     UserCopies(HistoryOf(currentProject'), text) = UserCopies(remote, text)]_vars

====
